---- MODULE Spec2Model ----
(***************************************************************************)
(* Restaurant queue (src/restaurant.py): a WhatsApp webhook that keeps a   *)
(* conversation session per phone number, a waiting list (table "users")   *)
(* and the restaurant's tables (table "tables") in SQLite, and seats        *)
(* waiting parties at free tables by least wasted seats, then first come    *)
(* first served.                                                            *)
(*                                                                          *)
(* The server is Flask's development server (app.run, line 431), which     *)
(* handles every request in a thread of its own.  No lock is taken; every  *)
(* store function opens its own connection and commits by itself, and       *)
(* every reply is a blocking requests.post.  A handler is therefore a       *)
(* sequence of steps of a thread: one step per access to the dict           *)
(* user_states, per SQLite statement or transaction and per message sent,   *)
(* and the steps of two threads interleave.                                 *)
(*                                                                          *)
(* Message bodies and table numbers are sequences of one-character strings *)
(* so that lower(), strip(), split(","), replace(), isdigit(), upper() and  *)
(* int() are computed, not assumed.                                         *)
(***************************************************************************)
EXTENDS Integers, Sequences, FiniteSets, TLC

VARIABLES
    tables,       \* SQLite table "tables": id -> [status, occupied_by_user_id]
    users,        \* SQLite table "users": the set of waiting-list rows
    seq,          \* AUTOINCREMENT sequence of "users": the last id handed out
    clock,        \* CURRENT_TIMESTAMP (one-second resolution)
    user_states,  \* the in-memory dict user_states: phone number -> session
    threads,      \* the request threads: program counter and local variables
    hist          \* history: requests received, seat commits, rows inserted

vars == <<tables, users, seq, clock, user_states, threads, hist>>

(***************************************************************************)
(* Bounds of the model.                                                    *)
(***************************************************************************)
MaxId == 4        \* rows ever inserted into "users" in one behaviour
MaxClock == 1     \* seconds the clock may advance
MaxWaiting == 2   \* waiting parties when an observed allocation run starts
MaxRequests == 4  \* requests received in one behaviour
MaxOverlaps == 1  \* requests that arrive while another request is being handled
MaxErrors == 1    \* store calls of one request that raise an error
MaxJoins == 1     \* parties that join in the end-to-end scenario
MaxRows == 2      \* rows inserted into "users" while the clock advances between joins
MaxMet == 1       \* waiting parties when a release meets an observed allocation run
MaxScen == 5      \* requests received where a customer and a waiter write

Senders == {"p1", "p2"}

(***************************************************************************)
(* Python string operations on sequences of characters.  A character is a  *)
(* one-character string; the alphabet is Latin-1 (U+0000 to U+00FF).  A    *)
(* character that a conversion produces outside Latin-1 is written by its  *)
(* code point, as "U+0178".                                                *)
(***************************************************************************)
\* the cased letters of the alphabet: A-Z, U+00C0-U+00D6, U+00D8-U+00DE and
\* their lower-case partners a-z, U+00E0-U+00F6, U+00F8-U+00FE
UpperCase == <<"A","B","C","D","E","F","G","H","I","J","K","L","M",
               "N","O","P","Q","R","S","T","U","V","W","X","Y","Z",
               "À","Á","Â","Ã","Ä","Å","Æ","Ç","È","É","Ê","Ë","Ì",
               "Í","Î","Ï","Ð","Ñ","Ò","Ó","Ô","Õ","Ö","Ø","Ù","Ú",
               "Û","Ü","Ý","Þ">>
LowerCase == <<"a","b","c","d","e","f","g","h","i","j","k","l","m",
               "n","o","p","q","r","s","t","u","v","w","x","y","z",
               "à","á","â","ã","ä","å","æ","ç","è","é","ê","ë","ì",
               "í","î","ï","ð","ñ","ò","ó","ô","õ","ö","ø","ù","ú",
               "û","ü","ý","þ">>
Digits == <<"0","1","2","3","4","5","6","7","8","9">>

Range(s) == {s[i] : i \in DOMAIN s}
IndexOf(s, ch) == CHOOSE i \in DOMAIN s : s[i] = ch

\* str.lower() of one character
lower_ch(ch) == IF ch \in Range(UpperCase) THEN LowerCase[IndexOf(UpperCase, ch)] ELSE ch
\* str.upper() of one character, a string: U+00DF becomes "SS", and the
\* upper case of U+00FF and of U+00B5 lies outside Latin-1
upper_ch(ch) ==
    IF ch \in Range(LowerCase) THEN <<UpperCase[IndexOf(LowerCase, ch)]>>
    ELSE IF ch = "ß" THEN <<"S", "S">>
    ELSE IF ch = "ÿ" THEN <<"U+0178">>
    ELSE IF ch = "µ" THEN <<"U+039C">>
    ELSE <<ch>>

\* str.lower() and str.upper()
lower(s) == [i \in DOMAIN s |-> lower_ch(s[i])]
RECURSIVE upper(_)
upper(s) == IF s = <<>> THEN <<>> ELSE upper_ch(Head(s)) \o upper(Tail(s))

\* str.isspace() of one character: U+0009-U+000D, U+001C-U+001F, U+0020,
\* U+0085, U+00A0
WhiteSpace == {"\t", "\n", "", "\f", "\r", "", "", "", "", " ", "", " "}
IsSpace(ch) == ch \in WhiteSpace

\* str.strip(): drop leading and trailing whitespace
RECURSIVE lstrip(_)
lstrip(s) == IF s # <<>> /\ IsSpace(Head(s)) THEN lstrip(Tail(s)) ELSE s
RECURSIVE rstrip(_)
rstrip(s) ==
    IF s # <<>> /\ IsSpace(s[Len(s)]) THEN rstrip(SubSeq(s, 1, Len(s) - 1)) ELSE s
strip(s) == rstrip(lstrip(s))

\* str.isdigit(): non-empty and all characters digits; the superscripts
\* U+00B2, U+00B3 and U+00B9 are digits that are not decimal
DigitChars == Range(Digits) \cup {"²", "³", "¹"}
isdigit(s) == s # <<>> /\ \A i \in DOMAIN s : s[i] \in DigitChars

StartsWith(s, p) == Len(s) >= Len(p) /\ SubSeq(s, 1, Len(p)) = p

\* str.replace(old, ""): remove the non-overlapping occurrences, left to right
RECURSIVE remove(_, _)
remove(s, old) ==
    IF s = <<>> THEN <<>>
    ELSE IF StartsWith(s, old) THEN remove(SubSeq(s, Len(old) + 1, Len(s)), old)
    ELSE <<Head(s)>> \o remove(Tail(s), old)

\* str.split(sep) for a one-character separator: the list of fields
RECURSIVE split(_, _)
split(s, sep) ==
    IF \E i \in DOMAIN s : s[i] = sep
    THEN LET i == CHOOSE k \in DOMAIN s : s[k] = sep /\ \A j \in 1..(k - 1) : s[j] # sep
         IN  <<SubSeq(s, 1, i - 1)>> \o split(SubSeq(s, i + 1, Len(s)), sep)
    ELSE <<s>>

\* int(str): optional surrounding whitespace, optional sign, decimal digits
\* with single underscores between them; anything else raises ValueError.
\* The whitespace int() drops is U+0009-U+000D, U+0020, U+0085 and U+00A0:
\* U+001C-U+001F are str.isspace() characters that int() rejects.
IntSpace == {"\t", "\n", "", "\f", "\r", " ", "", " "}
RECURSIVE int_lstrip(_)
int_lstrip(s) == IF s # <<>> /\ Head(s) \in IntSpace THEN int_lstrip(Tail(s)) ELSE s
RECURSIVE int_rstrip(_)
int_rstrip(s) ==
    IF s # <<>> /\ s[Len(s)] \in IntSpace THEN int_rstrip(SubSeq(s, 1, Len(s) - 1)) ELSE s
int_strip(s) == int_rstrip(int_lstrip(s))
DigitValue(ch) == IndexOf(Digits, ch) - 1
\* the value of the digits of s, underscores skipped
RECURSIVE DecimalValue(_)
DecimalValue(s) ==
    IF s = <<>> THEN 0
    ELSE IF s[Len(s)] = "_" THEN DecimalValue(SubSeq(s, 1, Len(s) - 1))
    ELSE 10 * DecimalValue(SubSeq(s, 1, Len(s) - 1)) + DigitValue(s[Len(s)])
\* the literal without surrounding whitespace and sign
Unsigned(s) ==
    IF int_strip(s) # <<>> /\ Head(int_strip(s)) \in {"+", "-"}
    THEN Tail(int_strip(s)) ELSE int_strip(s)
\* digits, each underscore between two digits
IsDecimalLiteral(s) ==
    /\ s # <<>>
    /\ \A i \in DOMAIN s : s[i] \in Range(Digits) \cup {"_"}
    /\ \A i \in DOMAIN s :
          s[i] = "_" => /\ i > 1 /\ i < Len(s)
                        /\ s[i - 1] \in Range(Digits) /\ s[i + 1] \in Range(Digits)
int_ok(s) == IsDecimalLiteral(Unsigned(s))
int(s) ==
    IF int_strip(s) # <<>> /\ Head(int_strip(s)) = "-" THEN 0 - DecimalValue(Unsigned(s))
    ELSE DecimalValue(Unsigned(s))

(***************************************************************************)
(* The store: init_db, save_user_data_to_db, update_table_status_to_free,  *)
(* get_waiting_customers, get_free_tables, seat_customer.                  *)
(***************************************************************************)
\* The seeded tables; a table's id is its position (AUTOINCREMENT, insertion order).
initial_tables_config ==
    << [table_number |-> <<"T","1">>, capacity |-> 2],
       [table_number |-> <<"T","2">>, capacity |-> 2],
       [table_number |-> <<"T","3">>, capacity |-> 2],
       [table_number |-> <<"T","4">>, capacity |-> 2],
       [table_number |-> <<"T","5">>, capacity |-> 4],
       [table_number |-> <<"T","6">>, capacity |-> 4],
       [table_number |-> <<"T","7">>, capacity |-> 4],
       [table_number |-> <<"T","8">>, capacity |-> 4],
       [table_number |-> <<"T","9">>, capacity |-> 6],
       [table_number |-> <<"T","1","0">>, capacity |-> 6] >>

TableIds == DOMAIN initial_tables_config
Capacity(t) == initial_tables_config[t].capacity
TableNumber(t) == initial_tables_config[t].table_number

\* SQL NULL in the integer column occupied_by_user_id (user ids start at 1)
NULL == 0

FreeRow == [status |-> "free", occupied_by_user_id |-> NULL]
OccupiedRow(customer_id) == [status |-> "occupied", occupied_by_user_id |-> customer_id]

\* init_db on a new database file: every seeded table free, no occupant
init_db_tables == [t \in TableIds |-> FreeRow]

\* SELECT id FROM users WHERE phone_number = ?
ExistingUser(us, phone_number) == {u \in us : u.phone_number = phone_number}

\* A faulty variant: the repeat join keeps the timestamp of the first join
UpdateUser_KeepTimestamp(us, user_id, name, people_count, now) ==
    {IF u.id = user_id
     THEN [u EXCEPT !.name = name, !.people_count = people_count]
     ELSE u : u \in us}

\* UPDATE users SET name = ?, people_count = ?, timestamp = CURRENT_TIMESTAMP WHERE id = ?
UpdateUser(us, user_id, name, people_count, now) ==
    {IF u.id = user_id
     THEN [u EXCEPT !.name = name, !.people_count = people_count, !.timestamp = now]
     ELSE u : u \in us}

\* A faulty variant: the column is not declared UNIQUE
UniqueViolation_Off(us, phone_number) == FALSE

\* phone_number TEXT NOT NULL UNIQUE: the INSERT raises IntegrityError
UniqueViolation(us, phone_number) == ExistingUser(us, phone_number) # {}

\* A faulty variant: the row takes the id of the last row inserted
InsertUser_NoAutoincrement(us, last_id, phone_number, name, people_count, now) ==
    us \cup {[id |-> last_id, phone_number |-> phone_number, name |-> name,
              people_count |-> people_count, timestamp |-> now]}

\* INSERT INTO users (phone_number, name, people_count, timestamp) VALUES (...)
InsertUser(us, last_id, phone_number, name, people_count, now) ==
    us \cup {[id |-> last_id + 1, phone_number |-> phone_number, name |-> name,
              people_count |-> people_count, timestamp |-> now]}

\* lines 126-147 after the SELECT returned existing (NULL for no row): the row
\* with that id is updated, else a row is inserted; user_id = NULL is the None
\* returned after sqlite3.Error
WriteUser(us, last_id, existing, phone_number, name, people_count, now) ==
    IF existing # NULL
    THEN [users |-> UpdateUser(us, existing, name, people_count, now),
          seq |-> last_id, user_id |-> existing]
    ELSE IF UniqueViolation(us, phone_number)
    THEN [users |-> us, seq |-> last_id, user_id |-> NULL]
    ELSE [users |-> InsertUser(us, last_id, phone_number, name, people_count, now),
          seq |-> last_id + 1, user_id |-> last_id + 1]

\* lines 123-124: the id of the row of this phone number, or NULL
SelectUserId(us, phone_number) ==
    IF ExistingUser(us, phone_number) = {} THEN NULL
    ELSE (CHOOSE u \in ExistingUser(us, phone_number) : TRUE).id

\* the rows an UPDATE ... WHERE table_number = ? matches
RowsWithNumber(table_number) == {t \in TableIds : TableNumber(t) = table_number}

\* A faulty variant: an unknown number is inserted as a new free table
update_table_status_to_free_upsert(tbs, table_number, db_error) ==
    IF db_error THEN [tables |-> tbs, found |-> FALSE]
    ELSE IF RowsWithNumber(table_number) = {}
    THEN [tables |-> ((Cardinality(TableIds) + 1) :> FreeRow) @@ tbs, found |-> TRUE]
    ELSE [tables |-> [t \in TableIds |->
                        IF t \in RowsWithNumber(table_number) THEN FreeRow ELSE tbs[t]],
          found  |-> TRUE]

\* A faulty variant: an error of the store is answered like a release
update_table_status_to_free_hidden(tbs, table_number, db_error) ==
    IF db_error THEN [tables |-> tbs, found |-> RowsWithNumber(table_number) # {}]
    ELSE [tables |-> [t \in TableIds |->
                        IF t \in RowsWithNumber(table_number) THEN FreeRow ELSE tbs[t]],
          found  |-> RowsWithNumber(table_number) # {}]

\* update_table_status_to_free: True iff cursor.rowcount > 0; when the UPDATE
\* or the commit raises sqlite3.Error (lines 173-175) nothing is written and
\* the function returns False
update_table_status_to_free(tbs, table_number, db_error) ==
    IF db_error THEN [tables |-> tbs, found |-> FALSE]
    ELSE [tables |-> [t \in TableIds |->
                        IF t \in RowsWithNumber(table_number) THEN FreeRow ELSE tbs[t]],
          found  |-> RowsWithNumber(table_number) # {}]

\* ORDER BY timestamp ASC; rows with equal keys come out in rowid order
RECURSIVE OrderByTimestamp(_)
OrderByTimestamp(us) ==
    IF us = {} THEN <<>>
    ELSE LET first == CHOOSE u \in us : \A v \in us :
                          \/ u.timestamp < v.timestamp
                          \/ (u.timestamp = v.timestamp /\ u.id <= v.id)
         IN  <<first>> \o OrderByTimestamp(us \ {first})

\* SELECT id, phone_number, name, people_count, timestamp FROM users ORDER BY
\* timestamp ASC; when the SELECT raises sqlite3.Error (lines 198-199) the list
\* returned is empty
get_waiting_customers(us, db_error) == IF db_error THEN <<>> ELSE OrderByTimestamp(us)

FreeIds(tbs) == {t \in TableIds : tbs[t].status = "free"}

RECURSIVE OrderByCapacity(_)
OrderByCapacity(ids) ==
    IF ids = {} THEN <<>>
    ELSE LET first == CHOOSE t \in ids : \A v \in ids :
                          \/ Capacity(t) < Capacity(v)
                          \/ (Capacity(t) = Capacity(v) /\ t <= v)
         IN  <<[id |-> first, table_number |-> TableNumber(first),
                capacity |-> Capacity(first)]>> \o OrderByCapacity(ids \ {first})

\* SELECT id, table_number, capacity FROM tables WHERE status = 'free' ORDER BY
\* capacity ASC; when the SELECT raises sqlite3.Error (lines 221-222) the list
\* returned is empty
get_free_tables(tbs, db_error) == IF db_error THEN <<>> ELSE OrderByCapacity(FreeIds(tbs))

\* A faulty variant: the table is named by the customer's name
SeatingNotice_Swapped(customer_phone_number, customer_name, table_number) ==
    [to |-> customer_phone_number, kind |-> "table_ready",
     args |-> <<table_number, customer_name>>]

\* the outbound seating notification of seat_customer
SeatingNotice(customer_phone_number, customer_name, table_number) ==
    [to |-> customer_phone_number, kind |-> "table_ready",
     args |-> <<customer_name, table_number>>]

\* A faulty variant: foreign keys enforced, so the DELETE sets occupied_by_user_id to NULL
seat_tables_fk(tbs, customer_id, table_id) ==
    [tbs EXCEPT ![table_id] = [status |-> "occupied", occupied_by_user_id |-> NULL]]

\* A faulty variant: the row is left in the waiting list
seat_users_Keep(us, customer_id) == us

\* the statements of seat_customer's transaction: UPDATE tables ... WHERE id = ?
\* and DELETE FROM users WHERE id = ? (foreign keys are not enforced: the
\* connection never sets PRAGMA foreign_keys)
seat_tables(tbs, customer_id, table_id) ==
    [tbs EXCEPT ![table_id] = OccupiedRow(customer_id)]
seat_users(us, customer_id) == {u \in us : u.id # customer_id}

(***************************************************************************)
(* attempt_seating_allocation                                              *)
(***************************************************************************)
\* line 277: the table is large enough for the party
Fits(table, customer) == table.capacity >= customer.people_count

\* lines 273-291: the scan of the free tables for one customer; best is <<>>
\* (None, min_wasted_seats = inf) or a one-element sequence
RECURSIVE ScanTables(_, _, _, _)
ScanTables(customer, free_tables, i, best) ==
    IF i > Len(free_tables) THEN best
    ELSE LET table == free_tables[i]
             wasted_seats == table.capacity - customer.people_count
             match == [wasted_seats |-> wasted_seats, timestamp |-> customer.timestamp,
                       customer |-> customer, table |-> table]
         IN  IF ~Fits(table, customer) THEN ScanTables(customer, free_tables, i + 1, best)
             ELSE IF best = <<>> \/ wasted_seats < best[1].wasted_seats
                  THEN ScanTables(customer, free_tables, i + 1, <<match>>)
             ELSE IF wasted_seats = best[1].wasted_seats /\ customer.timestamp < best[1].timestamp
                  THEN ScanTables(customer, free_tables, i + 1, <<match>>)
             ELSE ScanTables(customer, free_tables, i + 1, best)

best_match_for_customer(customer, free_tables) == ScanTables(customer, free_tables, 1, <<>>)

\* lines 272-291: one candidate per customer that fits some free table
RECURSIVE potential_allocations(_, _)
potential_allocations(waiting_customers, free_tables) ==
    IF waiting_customers = <<>> THEN <<>>
    ELSE best_match_for_customer(Head(waiting_customers), free_tables)
         \o potential_allocations(Tail(waiting_customers), free_tables)

\* A faulty variant: the key is (x[1], x[0]), arrival before waste
KeyLess_TimestampFirst(x, y) ==
    \/ x.timestamp < y.timestamp
    \/ (x.timestamp = y.timestamp /\ x.wasted_seats < y.wasted_seats)

\* A faulty variant: equal waste is ordered latest arrival first
KeyLess_LatestFirst(x, y) ==
    \/ x.wasted_seats < y.wasted_seats
    \/ (x.wasted_seats = y.wasted_seats /\ x.timestamp > y.timestamp)

\* line 296: the sort key (x[0], x[1]) compared as Python compares tuples
KeyLess(x, y) ==
    \/ x.wasted_seats < y.wasted_seats
    \/ (x.wasted_seats = y.wasted_seats /\ x.timestamp < y.timestamp)

\* sorted(): stable, so equal keys keep their order
RECURSIVE InsertSorted(_, _)
InsertSorted(sorted, x) ==
    IF sorted = <<>> THEN <<x>>
    ELSE IF KeyLess(x, Head(sorted)) THEN <<x>> \o sorted
    ELSE <<Head(sorted)>> \o InsertSorted(Tail(sorted), x)
RECURSIVE sorted_allocations(_)
sorted_allocations(allocs) ==
    IF allocs = <<>> THEN <<>>
    ELSE InsertSorted(sorted_allocations(SubSeq(allocs, 1, Len(allocs) - 1)),
                      allocs[Len(allocs)])

\* lines 303-314: the first candidate whose customer and table are unclaimed in
\* this pass is seated and the loop breaks; both sets are empty when it starts
RECURSIVE FirstUnclaimed(_, _, _)
FirstUnclaimed(sorted, seated_customer_ids, occupied_table_ids) ==
    IF sorted = <<>> THEN <<>>
    ELSE IF Head(sorted).customer.id \notin seated_customer_ids
            /\ Head(sorted).table.id \notin occupied_table_ids
         THEN <<Head(sorted)>>
    ELSE FirstUnclaimed(Tail(sorted), seated_customer_ids, occupied_table_ids)

\* what one pass commits, from the two lists it fetched: <<>> or <<candidate>>
PassChoice(waiting_customers, free_tables) ==
    FirstUnclaimed(sorted_allocations(potential_allocations(waiting_customers, free_tables)),
                   {}, {})

\* lines 316-320: re-run after a pass that allocated something
Rerun(allocated_something) == allocated_something

(***************************************************************************)
(* webhook: the words and the parsing of the conversation                  *)
(***************************************************************************)
DefaultSession == [role |-> "customer", state |-> "initial"]

Msg(to, kind, args) == [to |-> to, kind |-> kind, args |-> args]

WordWaiter == <<"w","a","i","t","e","r">>
WordHi == <<"h","i">>
WordTable == <<"t","a","b","l","e">>
\* line 357: the waiter password
WaiterPassword == <<"w","a","i","t","e","r","1","2","3">>

\* A faulty variant: the text that is not a number is used as it is
NormalizeTable_AsTyped(text) ==
    LET table_input == strip(remove(text, WordTable))
    IN  IF isdigit(table_input) THEN <<"T">> \o table_input ELSE table_input

\* lines 366-370: "table 4" and "4" become "T4"; anything else is upper-cased
NormalizeTable(text) ==
    LET table_input == strip(remove(text, WordTable))
    IN  IF isdigit(table_input) THEN <<"T">> \o table_input ELSE upper(table_input)

\* lines 387-388: unpacking the split into exactly two fields and int() of the
\* second; either may raise ValueError
ParseFields(text) == split(text, ",")
ParseOk(text) == Len(ParseFields(text)) = 2 /\ int_ok(strip(ParseFields(text)[2]))
ParsedName(text) == strip(ParseFields(text)[1])
ParsedCount(text) == int(strip(ParseFields(text)[2]))

\* line 392: the largest party accepted
MaxPartySize == 6

\* line 349: text = msg["text"]["body"].lower().strip()
NormalizeBody(body) == strip(lower(body))

(***************************************************************************)
(* The messages the senders type.                                          *)
(***************************************************************************)
\* Spec: customers joining, with valid and invalid requests
Texts ==
    { <<"H","i","\n">>,
      <<"A","l",","," ","5">>,
      <<"b","o",",","0","_","6">>,
      <<"a","l",",","7">>,
      <<"a","l",","," ","0">>,
      <<"a",",","b">> }

\* SpecErr: waiters releasing tables, known and unknown, and a customer
ErrBodies ==
    { <<"H","i","\n">>,
      <<"w","a","i","t","e","r">>,
      <<"w","a","i","t","e","r","1","2","3">>,
      <<"t","1","0">>,
      <<"T","a","b","l","e","\t","9">>,
      <<"7","7">>,
      <<"b","o",",","0","_","6">> }

\* SpecScen: the end-to-end scenario
ScenBodies ==
    { <<"h","i">>,
      <<"A","l","i","c","e",","," ","3">>,
      <<"w","a","i","t","e","r">>,
      <<"w","a","i","t","e","r","1","2","3">>,
      <<"T","5">> }

\* what the waiter of the scenario types
WaiterScenBodies ==
    { <<"w","a","i","t","e","r">>,
      <<"w","a","i","t","e","r","1","2","3">>,
      <<"T","5">> }

\* SpecJoin: a join, or a repeat join, of a party of 4
JoinBodies == { <<"A","l",",","4">> }

\* SpecConc: joins of parties of three sizes
ConcBodies ==
    { <<"a",",","1">>,
      <<"b",",","2">>,
      <<"c",",","3">> }

\* SpecSess: the messages of one sender
SessBodies ==
    { <<"H","i","\n">>,
      <<"w","a","i","t","e","r">>,
      <<"w","a","i","t","e","r","1","2","3">>,
      <<"t","9">>,
      <<"A","l",","," ","5">>,
      <<"a","l",",","7">>,
      <<"a","l",","," ","0">>,
      <<"a",",","b">> }

\* SpecAlloc, SpecSend, SpecFault: the release that meets the observed run
AllocBodies == { <<"T","5">> }

AllBodies ==
    Texts \cup ErrBodies \cup ScenBodies \cup JoinBodies \cup ConcBodies \cup SessBodies
    \cup AllocBodies

\* NormalizeBody of every body, computed once
Normalized == [body \in AllBodies |-> NormalizeBody(body)]

(***************************************************************************)
(* The request threads.  A thread is idle or handles one POST /webhook; pc  *)
(* is the line of restaurant.py it executes next, the other fields are the  *)
(* local variables of webhook, save_user_data_to_db and                     *)
(* attempt_seating_allocation, and a record of what the request did.        *)
(***************************************************************************)
Threads == {1, 2}

\* The local user_state (line 345) is a reference to the dict stored in
\* user_states[sender].  While that dict is the one stored there the reference
\* is live and reads what other threads write into it; once another
\* assignment has stored a new dict (lines 343, 363, 378, 400) the reference
\* holds the old dict, which nobody writes any more.
NoRef == [live |-> FALSE, role |-> "", state |-> ""]
LiveRef == [live |-> TRUE, role |-> "", state |-> ""]
OldDict(session) == [live |-> FALSE, role |-> session.role, state |-> session.state]

\* no session stored for the sender
NoSession == [role |-> "", state |-> ""]

\* What a thread records of its allocation run: the passes finished, the seat
\* commits, the calls of seat_customer that raised, whether a read raised,
\* and the rows and free tables of the database when the first pass read them
NoRun ==
    [passes |-> 0, commits |-> 0, failed |-> 0, read_failed |-> FALSE,
     users0 |-> {}, free0 |-> {}]

\* What a thread records of the state its request arrived in
NoBefore == [tables |-> <<>>, users |-> {}, seq |-> 0, session |-> NoSession]

IdleThread ==
    [pc |-> "idle", sender |-> "", message_type |-> "", body |-> <<>>, text |-> <<>>,
     user_state |-> NoRef, table_number |-> <<>>, name |-> <<>>, people_count |-> 0,
     user_id |-> NULL, waiting_customers |-> <<>>, free_tables |-> <<>>, seating |-> <<>>,
     ret |-> "", sent |-> <<>>, undelivered |-> 0, db_errors |-> {}, errors |-> 0, run |-> NoRun,
     before |-> NoBefore, alone |-> TRUE]

\* History: the requests received, those received while another request was
\* being handled, the senders two requests of whom were handled at the same
\* time, and, where hist.track asks for it, per table the entries seated at
\* it since its last release, per entry id the seat commits and the seating
\* notifications, and the phone number of every row inserted
NoHist ==
    [requests |-> 0, overlaps |-> 0, raced |-> {}, track |-> FALSE,
     given |-> [t \in TableIds |-> {}], seated |-> <<>>, notified |-> <<>>, phones |-> <<>>]

Count(f, k) == IF k \in DOMAIN f THEN f[k] ELSE 0
Bump(f, k) == (k :> Count(f, k) + 1) @@ f

Busy == \E u \in Threads : threads[u].pc # "idle"
BusyWith(sender) == \E u \in Threads : threads[u].pc # "idle" /\ threads[u].sender = sender

SessionOf(sessions, sender) ==
    IF sender \in DOMAIN sessions THEN sessions[sender] ELSE NoSession

\* lines 329-340: a request arrives and a thread of the server takes it; the
\* message is read from the JSON body
Receive(th, sender, message_type, body) ==
    /\ threads[th].pc = "idle"
    /\ \A u \in Threads : u < th => threads[u].pc # "idle"
    /\ threads' = [u \in Threads |->
                     IF u = th
                     THEN [IdleThread EXCEPT
                             !.pc = "L342", !.sender = sender,
                             !.message_type = message_type, !.body = body,
                             !.before = [tables |-> tables, users |-> users, seq |-> seq,
                                         session |-> SessionOf(user_states, sender)],
                             !.alone = ~Busy]
                     ELSE [threads[u] EXCEPT !.alone = (threads[u].pc = "idle")]]
    /\ hist' = [hist EXCEPT !.requests = @ + 1,
                            !.overlaps = IF Busy THEN @ + 1 ELSE @,
                            !.raced = IF BusyWith(sender) THEN @ \cup {sender} ELSE @]
    /\ UNCHANGED <<tables, users, seq, clock, user_states>>

\* the requests of a behaviour are at most max_requests, of which at most
\* MaxOverlaps arrive while another request is being handled
Admitted(max_requests) ==
    /\ hist.requests < max_requests
    /\ Busy => hist.overlaps < MaxOverlaps

\* POST /webhook with a text message
ReceiveText(th, senders, bodies, max_requests) ==
    \E sender \in senders, body \in bodies :
        /\ Admitted(max_requests)
        /\ Receive(th, sender, "text", body)

\* POST /webhook with a message of another type
ReceiveOther(th, senders, max_requests) ==
    \E sender \in senders :
        /\ Admitted(max_requests)
        /\ Receive(th, sender, "image", <<>>)

\* line 342: if sender not in user_states
Line342(th) ==
    /\ threads[th].pc = "L342"
    /\ threads' = [threads EXCEPT ![th].pc =
                      IF threads[th].sender \in DOMAIN user_states THEN "L345" ELSE "L343"]
    /\ UNCHANGED <<tables, users, seq, clock, user_states, hist>>

\* a new dict is stored in user_states[sender]: the references other threads
\* took to the dict stored before keep that dict
Detach(ths, sender) ==
    [u \in Threads |->
        IF ths[u].sender = sender /\ ths[u].user_state.live
        THEN [ths[u] EXCEPT !.user_state = OldDict(user_states[sender])]
        ELSE ths[u]]

\* line 343: user_states[sender] = {"role": "customer", "state": "initial", ...}
Line343(th) ==
    /\ threads[th].pc = "L343"
    /\ user_states' = (threads[th].sender :> DefaultSession) @@ user_states
    /\ threads' = [Detach(threads, threads[th].sender) EXCEPT ![th].pc = "L345"]
    /\ UNCHANGED <<tables, users, seq, clock, hist>>

\* lines 345-349: user_state = user_states[sender]; a text message is
\* lower-cased and stripped, any other type goes to line 411
Line345(th) ==
    /\ threads[th].pc = "L345"
    /\ threads' = [threads EXCEPT
                     ![th].user_state = LiveRef,
                     ![th].text = IF threads[th].message_type = "text"
                                  THEN Normalized[threads[th].body] ELSE <<>>,
                     ![th].pc = IF threads[th].message_type = "text" THEN "L352" ELSE "L411"]
    /\ UNCHANGED <<tables, users, seq, clock, user_states, hist>>

\* user_state["state"] and user_state["role"], read through the reference
StateRead(th) ==
    IF threads[th].user_state.live THEN user_states[threads[th].sender].state
    ELSE threads[th].user_state.state
RoleRead(th) ==
    IF threads[th].user_state.live THEN user_states[threads[th].sender].role
    ELSE threads[th].user_state.role

\* line 352: user_state["state"] == "initial" and text == "waiter"
Cond352(state, text) == state = "initial" /\ text = WordWaiter

\* A faulty variant: the keyword is recognised in every state
Cond381_AnyState(state, text) == text = WordHi

\* line 381: user_state["state"] == "initial" and text == "hi"
Cond381(state, text) == state = "initial" /\ text = WordHi

\* line 352: the first condition of the chain
Line352(th) ==
    /\ threads[th].pc = "L352"
    /\ threads' = [threads EXCEPT ![th].pc =
                      IF Cond352(StateRead(th), threads[th].text) THEN "L353" ELSE "L356"]
    /\ UNCHANGED <<tables, users, seq, clock, user_states, hist>>

\* lines 356-357: user_state["state"] == "awaiting_waiter_password" is read,
\* then (L356b) user_state["role"] == "waiter", then the password is compared
Line356(th) ==
    /\ threads[th].pc \in {"L356", "L356b"}
    /\ threads' = [threads EXCEPT ![th].pc =
                      IF threads[th].pc = "L356"
                      THEN IF StateRead(th) = "awaiting_waiter_password" THEN "L356b"
                           ELSE "L364"
                      ELSE IF RoleRead(th) # "waiter" THEN "L364"
                           ELSE IF threads[th].text = WaiterPassword THEN "L358"
                           ELSE "L361"]
    /\ UNCHANGED <<tables, users, seq, clock, user_states, hist>>

\* lines 364-370: user_state["state"] == "awaiting_free_table_number" is read,
\* then (L364b) user_state["role"] == "waiter", then the table number is
\* normalized
Line364(th) ==
    /\ threads[th].pc \in {"L364", "L364b"}
    /\ threads' = [threads EXCEPT
                     ![th].pc =
                        IF threads[th].pc = "L364"
                        THEN IF StateRead(th) = "awaiting_free_table_number" THEN "L364b"
                             ELSE "L381"
                        ELSE IF RoleRead(th) = "waiter" THEN "L372" ELSE "L381",
                     ![th].table_number =
                        IF threads[th].pc = "L364b" /\ RoleRead(th) = "waiter"
                        THEN NormalizeTable(threads[th].text) ELSE <<>>]
    /\ UNCHANGED <<tables, users, seq, clock, user_states, hist>>

\* line 381: the condition of the customer's greeting
Line381(th) ==
    /\ threads[th].pc = "L381"
    /\ threads' = [threads EXCEPT ![th].pc =
                      IF Cond381(StateRead(th), threads[th].text) THEN "L382" ELSE "L385"]
    /\ UNCHANGED <<tables, users, seq, clock, user_states, hist>>

\* A faulty variant: no upper limit on the party size
Validate_Unbounded(text) ==
    IF ~ParseOk(text) THEN "L405"
    ELSE IF ParsedCount(text) <= 0 THEN "L391"
    ELSE "L396"

\* lines 386-396 and 404: "Name, Count" is parsed and the count validated;
\* the line the handler goes on with
Validate(text) ==
    IF ~ParseOk(text) THEN "L405"
    ELSE IF ParsedCount(text) <= 0 THEN "L391"
    ELSE IF ParsedCount(text) > MaxPartySize THEN "L393"
    ELSE "L396"

\* lines 385-396: user_state["state"] == "awaiting_name_people" is read, then
\* (L385b) user_state["role"] == "customer", then the text is parsed; a valid
\* request enters save_user_data_to_db (line 123)
Line385(th) ==
    /\ threads[th].pc \in {"L385", "L385b"}
    /\ threads' =
         IF threads[th].pc = "L385"
         THEN [threads EXCEPT ![th].pc = IF StateRead(th) = "awaiting_name_people"
                                          THEN "L385b" ELSE "L408"]
         ELSE IF RoleRead(th) # "customer"
         THEN [threads EXCEPT ![th].pc = "L408"]
         ELSE IF Validate(threads[th].text) # "L396"
         THEN [threads EXCEPT ![th].pc = Validate(threads[th].text)]
         ELSE [threads EXCEPT ![th].pc = "L123",
                              ![th].name = ParsedName(threads[th].text),
                              ![th].people_count = ParsedCount(threads[th].text)]
    /\ UNCHANGED <<tables, users, seq, clock, user_states, hist>>

\* The lines that call send_message in webhook
ReplyLines ==
    {"L353", "L358", "L361", "L373", "L376", "L382", "L391", "L393", "L398", "L403",
     "L405", "L408", "L411"}

\* the message each of them sends
Reply(t) ==
    CASE t.pc = "L353" -> Msg(t.sender, "ask_password", <<>>)
      [] t.pc = "L358" -> Msg(t.sender, "authenticated", <<>>)
      [] t.pc = "L361" -> Msg(t.sender, "incorrect_password", <<>>)
      [] t.pc = "L373" -> Msg(t.sender, "table_freed", <<t.table_number>>)
      [] t.pc = "L376" -> Msg(t.sender, "table_not_found", <<t.table_number>>)
      [] t.pc = "L382" -> Msg(t.sender, "ask_name_people", <<>>)
      [] t.pc = "L391" -> Msg(t.sender, "not_positive", <<>>)
      [] t.pc = "L393" -> Msg(t.sender, "too_many", <<>>)
      [] t.pc = "L398" -> Msg(t.sender, "queued", <<t.name, t.people_count>>)
      [] t.pc = "L403" -> Msg(t.sender, "save_failed", <<>>)
      [] t.pc = "L405" -> Msg(t.sender, "bad_format", <<>>)
      [] t.pc = "L408" -> Msg(t.sender, "help", <<>>)
      [] t.pc = "L411" -> Msg(t.sender, "text_only", <<>>)

\* A faulty variant: a wrong password leaves the session as it is
AfterReply_Retry(pc) ==
    CASE pc = "L353" -> "L354"
      [] pc = "L358" -> "L359"
      [] pc = "L361" -> "L413"
      [] pc = "L373" -> "L374"
      [] pc = "L376" -> "L378"
      [] pc = "L382" -> "L383"
      [] pc = "L398" -> "L400"
      [] OTHER -> "L413"

\* A faulty variant: the notice of line 411 is followed by a reset of the session
AfterReply_ResetOnOther(pc) ==
    CASE pc = "L353" -> "L354"
      [] pc = "L358" -> "L359"
      [] pc = "L361" -> "L363"
      [] pc = "L373" -> "L374"
      [] pc = "L376" -> "L378"
      [] pc = "L382" -> "L383"
      [] pc = "L398" -> "L400"
      [] pc = "L411" -> "L378"
      [] OTHER -> "L413"

\* A faulty variant: the session is left as it was after the release
AfterReply_Keep(pc) ==
    CASE pc = "L353" -> "L354"
      [] pc = "L358" -> "L359"
      [] pc = "L361" -> "L363"
      [] pc = "L373" -> "L374"
      [] pc = "L376" -> "L413"
      [] pc = "L382" -> "L383"
      [] pc = "L398" -> "L400"
      [] OTHER -> "L413"

\* the line that follows each send_message; lines 391, 393, 403, 405, 408 and
\* 411 end the handler (line 413)
AfterReply(pc) ==
    CASE pc = "L353" -> "L354"
      [] pc = "L358" -> "L359"
      [] pc = "L361" -> "L363"
      [] pc = "L373" -> "L374"
      [] pc = "L376" -> "L378"
      [] pc = "L382" -> "L383"
      [] pc = "L398" -> "L400"
      [] OTHER -> "L413"

\* attempt_seating_allocation is entered (lines 374, 401, 318): the first
\* statement is the read of line 266; ret is the line the caller goes on with
Enter(t, ret) ==
    [t EXCEPT !.pc = "L266", !.ret = ret, !.run = NoRun, !.waiting_customers = <<>>,
              !.free_tables = <<>>, !.seating = <<>>]

\* lines 353-411: one send_message of webhook, a blocking requests.post; after
\* line 373 the allocation run is entered (line 374)
SendReply(th) ==
    /\ threads[th].pc \in ReplyLines
    /\ threads' = [threads EXCEPT ![th] =
                     LET t == [threads[th] EXCEPT !.sent = Append(@, Reply(threads[th])),
                                                  !.pc = AfterReply(threads[th].pc)]
                     IN  IF t.pc = "L374" THEN Enter(t, "L378") ELSE t]
    /\ UNCHANGED <<tables, users, seq, clock, user_states, hist>>

\* The lines that assign one field of the dict stored in user_states[sender]
FieldLines == {"L354", "L355", "L359", "L383", "L384"}

\* A faulty variant: "waiter" alone opens the release step
FieldWrite_NoPassword(pc, session) ==
    CASE pc = "L354" -> [session EXCEPT !.state = "awaiting_free_table_number"]
      [] pc = "L355" -> [session EXCEPT !.role = "waiter"]
      [] pc = "L359" -> [session EXCEPT !.state = "awaiting_free_table_number"]
      [] pc = "L383" -> [session EXCEPT !.state = "awaiting_name_people"]
      [] pc = "L384" -> [session EXCEPT !.role = "customer"]

\* lines 354, 355, 359, 383, 384: the dict after the assignment
FieldWrite(pc, session) ==
    CASE pc = "L354" -> [session EXCEPT !.state = "awaiting_waiter_password"]
      [] pc = "L355" -> [session EXCEPT !.role = "waiter"]
      [] pc = "L359" -> [session EXCEPT !.state = "awaiting_free_table_number"]
      [] pc = "L383" -> [session EXCEPT !.state = "awaiting_name_people"]
      [] pc = "L384" -> [session EXCEPT !.role = "customer"]

\* the line after it: 355 follows 354 and 384 follows 383, the others end the handler
AfterField(pc) ==
    CASE pc = "L354" -> "L355"
      [] pc = "L383" -> "L384"
      [] OTHER -> "L413"

\* lines 354, 355, 359, 383, 384: user_states[sender]["state"] = ... or
\* user_states[sender]["role"] = ..., one assignment into the dict that is
\* stored in user_states[sender] now
WriteField(th) ==
    /\ threads[th].pc \in FieldLines
    /\ user_states' = [user_states EXCEPT ![threads[th].sender] =
                          FieldWrite(threads[th].pc, @)]
    /\ threads' = [threads EXCEPT ![th].pc = AfterField(threads[th].pc)]
    /\ UNCHANGED <<tables, users, seq, clock, hist>>

\* The lines that store a new dict in user_states[sender]
ResetLines == {"L363", "L378", "L400"}

\* A faulty variant: a wrong password resets the state and keeps the role
NewDict_KeepRole(pc, session) ==
    IF pc = "L363" THEN [session EXCEPT !.state = "initial"] ELSE DefaultSession

\* lines 363, 378, 400: {"role": "customer", "state": "initial", "data": {}}
NewDict(pc, session) == DefaultSession

\* lines 363, 378, 400: user_states[sender] = {...}; after line 400 the
\* allocation run is entered (line 401), after the others the handler ends
ResetSession(th) ==
    /\ threads[th].pc \in ResetLines
    /\ user_states' = [user_states EXCEPT ![threads[th].sender] =
                          NewDict(threads[th].pc, @)]
    /\ threads' = [Detach(threads, threads[th].sender) EXCEPT ![th] =
                     IF @.pc = "L400" THEN Enter(@, "L413") ELSE [@ EXCEPT !.pc = "L413"]]
    /\ UNCHANGED <<tables, users, seq, clock, hist>>

(***************************************************************************)
(* The store calls of a handler.  Every store function opens its own       *)
(* connection and catches sqlite3.Error ("database is locked", a disk      *)
(* error) around its statements: the function prints "Database error ..."  *)
(* and the connection is closed without a commit, so nothing is written.   *)
(* Whether a call raises is an input of the step (db_errors holds the      *)
(* outcomes a specification admits); a request meets at most MaxErrors     *)
(* errors.                                                                 *)
(***************************************************************************)
Raised(t, function) ==
    [t EXCEPT !.db_errors = @ \cup {function}, !.errors = @ + 1]

\* lines 123-127: SELECT id FROM users WHERE phone_number = ?; the id found is
\* assigned to user_id.  When the SELECT raises, the function returns None
\* (lines 143-147) and the handler goes to line 403.
SelectUser(th, db_errors) ==
    /\ threads[th].pc = "L123"
    /\ \E db_error \in db_errors :
        /\ db_error => threads[th].errors < MaxErrors
        /\ threads' = [threads EXCEPT ![th] =
                         IF db_error
                         THEN [Raised(@, "save_user_data_to_db") EXCEPT !.pc = "L403"]
                         ELSE [@ EXCEPT !.user_id = SelectUserId(users, threads[th].sender),
                                        !.pc = IF SelectUserId(users, threads[th].sender) # NULL
                                               THEN "L129" ELSE "L136"]]
    /\ UNCHANGED <<tables, users, seq, clock, user_states, hist>>

\* The places where the write of save_user_data_to_db can raise sqlite3.Error:
\* nowhere; in the UPDATE or the INSERT; in the commit, after cursor.lastrowid
\* was assigned to user_id
WriteErrors == {"none", "execute", "commit"}

\* line 397: if user_id
AfterSave(user_id) == IF user_id # NULL THEN "L398" ELSE "L403"

\* lines 129-147 and 396-397: the UPDATE of the row found (line 129) or the
\* INSERT (line 136), and the commit.  The database is written at the commit;
\* an INSERT that meets a row of the same phone number, committed since the
\* SELECT, raises IntegrityError.  save_user_data_to_db returns user_id:
\* after an error the id the SELECT found, or the id the rolled-back INSERT
\* was given, or None.
WriteUserRow(th, db_errors, max_id) ==
    /\ threads[th].pc \in {"L129", "L136"}
    /\ \E db_error \in db_errors :
        LET t == threads[th]
            saved == WriteUser(users, seq, t.user_id, t.sender, t.name, t.people_count, clock)
            user_id == IF db_error = "none" THEN saved.user_id
                       ELSE IF t.user_id # NULL THEN t.user_id
                       ELSE IF db_error = "commit" /\ ~UniqueViolation(users, t.sender)
                            THEN seq + 1
                       ELSE NULL
            inserted == db_error = "none" /\ saved.seq > seq
        IN  /\ db_error # "none" => t.errors < MaxErrors
            /\ saved.seq <= max_id
            /\ users' = IF db_error = "none" THEN saved.users ELSE users
            /\ seq' = IF db_error = "none" THEN saved.seq ELSE seq
            /\ threads' = [threads EXCEPT ![th] =
                             [(IF db_error = "none" /\ saved.user_id # NULL THEN t
                               ELSE Raised(t, "save_user_data_to_db"))
                              EXCEPT !.user_id = user_id, !.pc = AfterSave(user_id)]]
            /\ hist' = IF hist.track /\ inserted
                       THEN [hist EXCEPT !.phones = (saved.seq :> t.sender) @@ @]
                       ELSE hist
    /\ UNCHANGED <<tables, clock, user_states>>

\* A faulty variant: the allocation runs before the confirmation is sent
AfterRelease_NotifyFirst(t, found) ==
    IF found THEN Enter(t, "L373") ELSE [t EXCEPT !.pc = "L376"]

\* line 372: if update_table_status_to_free(table_number)
AfterRelease(t, found) == [t EXCEPT !.pc = IF found THEN "L373" ELSE "L376"]

\* lines 162-175 and 372: UPDATE tables SET status = 'free', ... WHERE
\* table_number = ? and the commit
Release(th, db_errors) ==
    /\ threads[th].pc = "L372"
    /\ \E db_error \in db_errors :
        LET freed == update_table_status_to_free(tables, threads[th].table_number, db_error)
        IN  /\ db_error => threads[th].errors < MaxErrors
            /\ tables' = freed.tables
            /\ threads' = [threads EXCEPT ![th] =
                             AfterRelease(IF db_error
                                          THEN Raised(@, "update_table_status_to_free")
                                          ELSE @, freed.found)]
            /\ hist' = IF hist.track /\ ~db_error
                       THEN [hist EXCEPT !.given =
                                [t \in TableIds |->
                                    IF t \in RowsWithNumber(threads[th].table_number)
                                    THEN {} ELSE @[t]]]
                       ELSE hist
    /\ UNCHANGED <<users, seq, clock, user_states>>

(***************************************************************************)
(* attempt_seating_allocation, statement by statement.  A pass is the read *)
(* of the waiting list (line 266), the read of the free tables (line 267), *)
(* the choice computed from the two lists (lines 270-306), the transaction *)
(* of seat_customer (lines 242-248) and the notification (line 251); no    *)
(* lock is held from one to the next.                                      *)
(***************************************************************************)
\* line 266: waiting_customers = get_waiting_customers()
ReadWaiting(th, db_errors) ==
    /\ threads[th].pc = "L266"
    /\ \E db_error \in db_errors :
        /\ db_error => threads[th].errors < MaxErrors
        /\ threads' = [threads EXCEPT ![th] =
                         [(IF db_error THEN Raised(@, "get_waiting_customers") ELSE @)
                          EXCEPT !.pc = "L267",
                                 !.waiting_customers = get_waiting_customers(users, db_error),
                                 !.free_tables = <<>>,
                                 !.seating = <<>>,
                                 !.run.read_failed = @ \/ db_error,
                                 !.run.users0 = IF threads[th].run.passes = 0 THEN users
                                                ELSE @]]
    /\ UNCHANGED <<tables, users, seq, clock, user_states, hist>>

\* lines 316-320 after a pass: the line the run goes on with
AfterPass(allocated_something) == IF Rerun(allocated_something) THEN "L266" ELSE "L320"

\* lines 267-306: free_tables = get_free_tables(), then the candidates are
\* collected and sorted and the first one is taken (seating); with no candidate
\* the pass has allocated nothing and the run ends (line 320)
ReadFree(th, db_errors) ==
    /\ threads[th].pc = "L267"
    /\ \E db_error \in db_errors :
        LET free_tables == get_free_tables(tables, db_error)
            choice == PassChoice(threads[th].waiting_customers, free_tables)
        IN  /\ db_error => threads[th].errors < MaxErrors
            /\ threads' = [threads EXCEPT ![th] =
                             [(IF db_error THEN Raised(@, "get_free_tables") ELSE @)
                              EXCEPT !.pc = IF choice # <<>> THEN "L242"
                                            ELSE AfterPass(FALSE),
                                     !.free_tables = free_tables,
                                     !.seating = choice,
                                     !.run.passes = IF choice # <<>> THEN @ ELSE @ + 1,
                                     !.run.read_failed = @ \/ db_error,
                                     !.run.free0 = IF threads[th].run.passes = 0
                                                   THEN FreeIds(tables) ELSE @]]
    /\ UNCHANGED <<tables, users, seq, clock, user_states, hist>>

\* lines 242-248 and 253-254: the transaction of seat_customer for the
\* candidate taken, applied to the database as it is now: UPDATE tables ...
\* WHERE id = ?, DELETE FROM users WHERE id = ?, commit.  When it raises,
\* nothing is written and nothing is sent; allocated_something is set all the
\* same (line 310) and the run starts over (line 318).
SeatCommit(th, db_errors) ==
    /\ threads[th].pc = "L242"
    /\ \E db_error \in db_errors :
        LET customer == threads[th].seating[1].customer
            table == threads[th].seating[1].table
        IN  /\ db_error => threads[th].errors < MaxErrors
            /\ tables' = IF db_error THEN tables
                         ELSE seat_tables(tables, customer.id, table.id)
            /\ users' = IF db_error THEN users ELSE seat_users(users, customer.id)
            /\ threads' = [threads EXCEPT ![th] =
                             IF db_error
                             THEN [Raised(@, "seat_customer") EXCEPT
                                      !.pc = AfterPass(TRUE),
                                      !.run.passes = @ + 1,
                                      !.run.failed = @ + 1]
                             ELSE [@ EXCEPT !.pc = "L251", !.run.commits = @ + 1]]
            /\ hist' = IF hist.track /\ ~db_error
                       THEN [hist EXCEPT !.given[table.id] = @ \cup {customer.id},
                                         !.seated = Bump(@, customer.id)]
                       ELSE hist
    /\ UNCHANGED <<seq, clock, user_states>>

\* A faulty variant: the exception of a failed request is not caught
send_message_Raises(delivered) == [raised |-> ~delivered]

\* send_message (lines 46-52): a request that fails is caught and reported in
\* the return value, which no caller reads; nothing is raised
send_message(delivered) == [raised |-> FALSE]

\* line 251, then lines 308-318: the seating notification, delivered or not
\* as deliveries allows, and the run starts over; an exception out of
\* send_message would end the request there
Notify(th, deliveries) ==
    /\ threads[th].pc = "L251"
    /\ \E delivered \in deliveries :
        LET customer == threads[th].seating[1].customer
            table == threads[th].seating[1].table
        IN  /\ threads' = [threads EXCEPT ![th] =
                             [@ EXCEPT !.pc = IF send_message(delivered).raised THEN "raised"
                                              ELSE AfterPass(TRUE),
                                       !.sent = Append(@, SeatingNotice(customer.phone_number,
                                                                        customer.name,
                                                                        table.table_number)),
                                       !.undelivered = IF delivered THEN @ ELSE @ + 1,
                                       !.run.passes = @ + 1]]
            /\ hist' = IF hist.track THEN [hist EXCEPT !.notified = Bump(@, customer.id)]
                       ELSE hist
    /\ UNCHANGED <<tables, users, seq, clock, user_states>>

\* line 320: "No further allocations possible"; the calls of the run return
\* and the handler goes on after its call (line 378 after 374, the end after 401)
RunEnds(th) ==
    /\ threads[th].pc = "L320"
    /\ threads' = [threads EXCEPT ![th].pc = threads[th].ret]
    /\ UNCHANGED <<tables, users, seq, clock, user_states, hist>>

\* line 413: return "EVENT_RECEIVED", 200
Return(th) ==
    /\ threads[th].pc = "L413"
    /\ threads' = [threads EXCEPT ![th] = IdleThread]
    /\ UNCHANGED <<tables, users, seq, clock, user_states, hist>>

\* a second passes
Tick ==
    /\ clock < MaxClock
    /\ clock' = clock + 1
    /\ UNCHANGED <<tables, users, seq, threads, user_states, hist>>

(***************************************************************************)
(* Spec: the server from a new database, customers joining.  Of the store  *)
(* calls the save may raise an error (SpecErr has the others raise too).   *)
(***************************************************************************)
Init ==
    /\ tables = init_db_tables
    /\ users = {}
    /\ seq = 0
    /\ clock = 0
    /\ user_states = <<>>
    /\ threads = [th \in Threads |-> IdleThread]
    /\ hist = NoHist

Next ==
    \E th \in Threads :
        \/ ReceiveText(th, Senders, Texts, MaxRequests)
        \/ Line342(th)
        \/ Line343(th)
        \/ Line345(th)
        \/ Line352(th)
        \/ Line356(th)
        \/ Line364(th)
        \/ Line381(th)
        \/ Line385(th)
        \/ SendReply(th)
        \/ WriteField(th)
        \/ ResetSession(th)
        \/ SelectUser(th, BOOLEAN)
        \/ WriteUserRow(th, WriteErrors, MaxId)
        \/ ReadWaiting(th, {FALSE})
        \/ ReadFree(th, {FALSE})
        \/ SeatCommit(th, {FALSE})
        \/ Notify(th, {TRUE})
        \/ RunEnds(th)
        \/ Return(th)

Spec == Init /\ [][Next]_vars

(***************************************************************************)
(* SpecErr: the server from a new database, waiters and a customer, with a *)
(* store every call of which may raise sqlite3.Error.                      *)
(***************************************************************************)
\* the sender who writes as a customer and the one who writes as a waiter
Customers == {"p1"}
Waiters == {"p2"}
\* what the waiter types
WaiterBodies ==
    { <<"w","a","i","t","e","r">>,
      <<"w","a","i","t","e","r","1","2","3">>,
      <<"t","1","0">>,
      <<"T","a","b","l","e","\t","9">>,
      <<"7","7">> }

NextErr ==
    \E th \in Threads :
        \/ ReceiveText(th, Customers, ErrBodies \ WaiterBodies, MaxScen)
        \/ ReceiveText(th, Waiters, WaiterBodies, MaxScen)
        \/ Line342(th)
        \/ Line343(th)
        \/ Line345(th)
        \/ Line352(th)
        \/ Line356(th)
        \/ Line364(th)
        \/ Line381(th)
        \/ Line385(th)
        \/ SendReply(th)
        \/ WriteField(th)
        \/ ResetSession(th)
        \/ Release(th, BOOLEAN)
        \/ SelectUser(th, BOOLEAN)
        \/ WriteUserRow(th, WriteErrors, MaxId)
        \/ ReadWaiting(th, BOOLEAN)
        \/ ReadFree(th, BOOLEAN)
        \/ SeatCommit(th, BOOLEAN)
        \/ Notify(th, {TRUE})
        \/ RunEnds(th)
        \/ Return(th)

SpecErr == Init /\ [][NextErr]_vars

(***************************************************************************)
(* SpecAlloc: an allocation run observed statement by statement, started   *)
(* on any database with at most MaxWaiting waiting parties.  The database  *)
(* outlives the process (init_db creates nothing that exists), so a run    *)
(* can meet any waiting list and any set of free tables.  While it runs, a *)
(* waiter who has given the password may release a table.                  *)
(***************************************************************************)
\* The free tables an observed run starts with: the first a two-seaters, the
\* first b four-seaters and the first c six-seaters, for every a, b and c up
\* to the number of waiting parties
TablesOfCapacity(cap) == {t \in TableIds : Capacity(t) = cap}
FirstOf(ids, n) == {t \in ids : Cardinality({v \in ids : v < t}) < n}
Capacities == {Capacity(t) : t \in TableIds}
StartFreeSets ==
    {UNION {FirstOf(TablesOfCapacity(cap), n[cap]) : cap \in Capacities} :
        n \in [Capacities -> 0..MaxWaiting]}

\* An occupied table t holds an earlier party, whose row had id t; the waiting
\* parties came later
StartTables(free) ==
    [t \in TableIds |-> IF t \in free THEN FreeRow ELSE OccupiedRow(t)]
WaitingId(i) == Cardinality(TableIds) + i
WaitingPhone(i) == <<"w1", "w2", "w3", "w4", "w5", "w6">>[i]
StartUsers(n, size, ts) ==
    {[id |-> WaitingId(i), phone_number |-> WaitingPhone(i), name |-> <<"n">>,
      people_count |-> size[i], timestamp |-> ts[i]] : i \in 1..n}

\* the session of a waiter who has given the password
WaiterReady == [role |-> "waiter", state |-> "awaiting_free_table_number"]

\* the thread of the observed run: attempt_seating_allocation has been entered
\* from line 401
RunThread(tbs, us, last_id) ==
    [Enter(IdleThread, "L413") EXCEPT
        !.before = [tables |-> tbs, users |-> us, seq |-> last_id, session |-> NoSession]]

\* a waiter who has given the password is there, or none is (when more than
\* MaxMet parties wait, none is)
InitAlloc ==
    \E n \in 0..MaxWaiting, free \in StartFreeSets :
        \E size \in [1..n -> 1..MaxPartySize], ts \in [1..n -> 0..MaxClock],
           waiters \in IF n <= MaxMet THEN {{}, Waiters} ELSE {{}} :
            /\ tables = StartTables(free)
            /\ users = StartUsers(n, size, ts)
            /\ seq = WaitingId(n)
            /\ clock = MaxClock
            /\ user_states = [sender \in waiters |-> WaiterReady]
            /\ threads = [th \in Threads |->
                            IF th = 1 THEN RunThread(tables, users, seq) ELSE IdleThread]
            /\ hist = NoHist

NextAlloc ==
    \E th \in Threads :
        \/ ReceiveText(th, DOMAIN user_states, AllocBodies, MaxOverlaps)
        \/ Line342(th)
        \/ Line345(th)
        \/ Line352(th)
        \/ Line356(th)
        \/ Line364(th)
        \/ SendReply(th)
        \/ ResetSession(th)
        \/ Release(th, {FALSE})
        \/ ReadWaiting(th, {FALSE})
        \/ ReadFree(th, {FALSE})
        \/ SeatCommit(th, {FALSE})
        \/ Notify(th, {TRUE})
        \/ RunEnds(th)
        \/ Return(th)

SpecAlloc == InitAlloc /\ [][NextAlloc]_vars

\* SpecSend: the same runs, with notifications that may fail to be delivered
NextSend ==
    \E th \in Threads :
        \/ ReceiveText(th, DOMAIN user_states, AllocBodies, MaxOverlaps)
        \/ Line342(th)
        \/ Line345(th)
        \/ Line352(th)
        \/ Line356(th)
        \/ Line364(th)
        \/ SendReply(th)
        \/ ResetSession(th)
        \/ Release(th, {FALSE})
        \/ ReadWaiting(th, {FALSE})
        \/ ReadFree(th, {FALSE})
        \/ SeatCommit(th, {FALSE})
        \/ Notify(th, BOOLEAN)
        \/ RunEnds(th)
        \/ Return(th)

SpecSend == InitAlloc /\ [][NextSend]_vars

\* SpecFault: the same runs, with a store that may raise sqlite3.Error in the
\* calls of a pass
NextFault ==
    \E th \in Threads :
        \/ ReceiveText(th, DOMAIN user_states, AllocBodies, MaxOverlaps)
        \/ Line342(th)
        \/ Line345(th)
        \/ Line352(th)
        \/ Line356(th)
        \/ Line364(th)
        \/ SendReply(th)
        \/ ResetSession(th)
        \/ Release(th, {FALSE})
        \/ ReadWaiting(th, BOOLEAN)
        \/ ReadFree(th, BOOLEAN)
        \/ SeatCommit(th, BOOLEAN)
        \/ Notify(th, {TRUE})
        \/ RunEnds(th)
        \/ Return(th)

SpecFault == InitAlloc /\ [][NextFault]_vars

(***************************************************************************)
(* SpecSess: the conversation of one sender, from a new database: every    *)
(* keyword in every state, text and other messages, with a store that      *)
(* raises no error.                                                        *)
(***************************************************************************)
NextSess ==
    \E th \in Threads :
        \/ ReceiveText(th, Customers, SessBodies, MaxRequests)
        \/ ReceiveOther(th, Customers, MaxRequests)
        \/ Line342(th)
        \/ Line343(th)
        \/ Line345(th)
        \/ Line352(th)
        \/ Line356(th)
        \/ Line364(th)
        \/ Line381(th)
        \/ Line385(th)
        \/ SendReply(th)
        \/ WriteField(th)
        \/ ResetSession(th)
        \/ Release(th, {FALSE})
        \/ SelectUser(th, {FALSE})
        \/ WriteUserRow(th, {"none"}, MaxId)
        \/ ReadWaiting(th, {FALSE})
        \/ ReadFree(th, {FALSE})
        \/ SeatCommit(th, {FALSE})
        \/ Notify(th, {TRUE})
        \/ RunEnds(th)
        \/ Return(th)

SpecSess == Init /\ [][NextSess]_vars

(***************************************************************************)
(* SpecScen: a customer and a waiter on a database that earlier runs of    *)
(* the server left behind (users.db outlives the process): some tables     *)
(* occupied, nobody waiting.                                               *)
(***************************************************************************)
LargestCapacity == CHOOSE c \in Capacities : \A d \in Capacities : d <= c

\* the free tables when the server starts: at most MaxJoins of each capacity
\* but the largest, of which none is free
ScenFreeSets ==
    {UNION {FirstOf(TablesOfCapacity(cap), n[cap]) : cap \in Capacities} :
        n \in {m \in [Capacities -> 0..MaxJoins] : m[LargestCapacity] = 0}}

InitScen ==
    \E free \in ScenFreeSets :
        /\ tables = StartTables(free)
        /\ users = {}
        /\ seq = WaitingId(0)
        /\ clock = 0
        /\ user_states = <<>>
        /\ threads = [th \in Threads |-> IdleThread]
        /\ hist = NoHist

NextScen ==
    \E th \in Threads :
        \/ ReceiveText(th, Customers, ScenBodies \ WaiterScenBodies, MaxScen)
        \/ ReceiveText(th, Waiters, WaiterScenBodies, MaxScen)
        \/ Line342(th)
        \/ Line343(th)
        \/ Line345(th)
        \/ Line352(th)
        \/ Line356(th)
        \/ Line364(th)
        \/ Line381(th)
        \/ Line385(th)
        \/ SendReply(th)
        \/ WriteField(th)
        \/ ResetSession(th)
        \/ Release(th, {FALSE})
        \/ SelectUser(th, {FALSE})
        \/ WriteUserRow(th, {"none"}, WaitingId(MaxJoins))
        \/ ReadWaiting(th, {FALSE})
        \/ ReadFree(th, {FALSE})
        \/ SeatCommit(th, {FALSE})
        \/ Notify(th, {TRUE})
        \/ RunEnds(th)
        \/ Return(th)

SpecScen == InitScen /\ [][NextScen]_vars

(***************************************************************************)
(* SpecJoin: parties joining and joining again on a database left behind   *)
(* by earlier runs, with the clock advancing.  Both senders have been      *)
(* asked for name and size.  hist.phones has the phone number of every row *)
(* of "users", those of the parties seated earlier included.               *)
(***************************************************************************)
CustomerJoining == [role |-> "customer", state |-> "awaiting_name_people"]

\* the table sizes the joining parties ask for
JoinSizes == {2, 4}
\* the earlier party at the first table is the first sender, at the other
\* tables somebody else
EarlierPhone(id) == IF id = 1 THEN "p1" ELSE "p0"
JoinPhone(i) == IF i <= 2 THEN <<"p1", "p2">>[i] ELSE WaitingPhone(i)
JoinUsers(n, size) ==
    {[id |-> WaitingId(i), phone_number |-> JoinPhone(i), name |-> <<"n">>,
      people_count |-> size[i], timestamp |-> 0] : i \in 1..n}

InitJoin ==
    \E free \in ScenFreeSets, n \in 0..MaxRows :
        \E size \in [1..n -> JoinSizes] :
            /\ tables = StartTables(free)
            /\ users = JoinUsers(n, size)
            /\ seq = WaitingId(n)
            /\ clock = 0
            /\ user_states = [sender \in Senders |-> CustomerJoining]
            /\ threads = [th \in Threads |-> IdleThread]
            /\ hist = [NoHist EXCEPT
                         !.track = TRUE,
                         !.phones = [id \in (TableIds \ free) \cup {u.id : u \in users} |->
                                        IF id \in TableIds THEN EarlierPhone(id)
                                        ELSE JoinPhone(id - WaitingId(0))]]

NextJoin ==
    \/ Tick
    \/ \E th \in Threads :
        \/ ReceiveText(th, Senders, JoinBodies, MaxOverlaps + 1)
        \/ Line342(th)
        \/ Line345(th)
        \/ Line352(th)
        \/ Line356(th)
        \/ Line364(th)
        \/ Line381(th)
        \/ Line385(th)
        \/ SendReply(th)
        \/ ResetSession(th)
        \/ SelectUser(th, {FALSE})
        \/ WriteUserRow(th, {"none"}, WaitingId(MaxRows))
        \/ ReadWaiting(th, {FALSE})
        \/ ReadFree(th, {FALSE})
        \/ SeatCommit(th, {FALSE})
        \/ Notify(th, {TRUE})
        \/ RunEnds(th)
        \/ Return(th)

SpecJoin == InitJoin /\ [][NextJoin]_vars

(***************************************************************************)
(* SpecConc: two parties, both asked for name and size, joining at the     *)
(* same time on a new database.  hist has the seat commits and the seating *)
(* notifications of every entry.                                           *)
(***************************************************************************)
InitConc ==
    /\ tables = init_db_tables
    /\ users = {}
    /\ seq = 0
    /\ clock = 0
    /\ user_states = [sender \in Senders |-> CustomerJoining]
    /\ threads = [th \in Threads |-> IdleThread]
    /\ hist = [NoHist EXCEPT !.track = TRUE]

NextConc ==
    \E th \in Threads :
        \/ ReceiveText(th, Senders, ConcBodies, MaxRequests)
        \/ Line342(th)
        \/ Line345(th)
        \/ Line352(th)
        \/ Line356(th)
        \/ Line364(th)
        \/ Line381(th)
        \/ Line385(th)
        \/ SendReply(th)
        \/ ResetSession(th)
        \/ SelectUser(th, {FALSE})
        \/ WriteUserRow(th, {"none"}, MaxId)
        \/ ReadWaiting(th, {FALSE})
        \/ ReadFree(th, {FALSE})
        \/ SeatCommit(th, {FALSE})
        \/ Notify(th, {TRUE})
        \/ RunEnds(th)
        \/ Return(th)

SpecConc == InitConc /\ [][NextConc]_vars

(***************************************************************************)
(* Properties                                                              *)
(***************************************************************************)
\* thread th has handled its request and is about to return (line 413)
Done(th) == threads[th].pc = "L413"
\* thread th takes the step
Acts(th) == threads'[th].pc # threads[th].pc
\* every request so far was handled with no other request in hand
OneAtATime == hist.overlaps = 0
\* a request of sender is in hand and has not reached its last line
InHandler(sender) ==
    \E th \in Threads : threads[th].sender = sender /\ threads[th].pc \notin {"idle", "L413"}
\* the kinds of the messages of a request, in the order they were sent
Kinds(sent) == [i \in DOMAIN sent |-> sent[i].kind]
\* the allocation run of thread th has ended (line 320) and no other request
\* was handled while it ran
RunDoneAlone(th) == threads[th].pc = "L320" /\ threads[th].alone

ValidSessions ==
    { <<"customer", "initial">>,
      <<"waiter", "awaiting_waiter_password">>,
      <<"waiter", "awaiting_free_table_number">>,
      <<"customer", "awaiting_name_people">> }

\* C1 (SpecConc): no table is given to two different waitlist entries without
\* a release in between, and no waitlist entry is seated or notified more than
\* once, however the allocation runs of concurrent requests interleave.
C1_NoDoubleSeating ==
    /\ \A t \in TableIds : Cardinality(hist.given[t]) <= 1
    /\ \A id \in DOMAIN hist.seated : hist.seated[id] <= 1
    /\ \A id \in DOMAIN hist.notified : hist.notified[id] <= 1

\* The wasted seats of every pair of a waiting entry and a free table that is
\* large enough, in the lists a pass fetched
PairWastes(waiting_customers, free_tables) ==
    {free_tables[j].capacity - waiting_customers[i].people_count :
        <<i, j>> \in {q \in (DOMAIN waiting_customers) \X (DOMAIN free_tables) :
                        free_tables[q[2]].capacity >= waiting_customers[q[1]].people_count}}
Minimum(S) == CHOOSE m \in S : \A x \in S : m <= x

\* a run that nothing interleaved with has ended; it started with parties of
\* sizes 2 and 5, enqueued in that order, and free tables of capacities 2, 2,
\* 4 and 6
C2Example(th) ==
    /\ RunDoneAlone(th)
    /\ \E a, b \in threads[th].run.users0 :
        /\ threads[th].run.users0 = {a, b}
        /\ a.people_count = 2 /\ b.people_count = 5
        /\ a.timestamp <= b.timestamp /\ a.id < b.id
    /\ Cardinality(threads[th].run.free0) = 4
    /\ Cardinality(threads[th].run.free0 \cap TablesOfCapacity(2)) = 2
    /\ Cardinality(threads[th].run.free0 \cap TablesOfCapacity(4)) = 1
    /\ Cardinality(threads[th].run.free0 \cap TablesOfCapacity(6)) = 1

\* C2 (SpecAlloc): the pair a pass picks and commits wastes the fewest seats of
\* all pairs of a waiting entry and a large enough free table in the lists the
\* pass read, whatever other requests do meanwhile; with free capacities 2, 2,
\* 4, 6 and waiting sizes 2, 5 the run seats the party of 2 at a table for 2
\* and the party of 5 at the table for 6.
C2_LeastWasteFirst ==
    \A th \in Threads :
        /\ threads[th].seating # <<>> =>
              threads[th].seating[1].table.capacity
                  - threads[th].seating[1].customer.people_count
                  = Minimum(PairWastes(threads[th].waiting_customers,
                                       threads[th].free_tables))
        /\ C2Example(th) =>
              \A u \in threads[th].run.users0 :
                  \E t \in threads[th].run.free0 :
                      /\ tables[t] = OccupiedRow(u.id)
                      /\ Capacity(t) = IF u.people_count = 2 THEN 2 ELSE 6

C2_Witness == \E th \in Threads : C2Example(th) /\ threads[th].run.commits = 2 /\ users = {}

\* The fewest seats a customer wastes at any free table large enough for it, as a
\* set: empty when no table is
BestWaste(customer, free_tables) ==
    LET wastes == {free_tables[j].capacity - customer.people_count :
                     j \in {k \in DOMAIN free_tables :
                              free_tables[k].capacity >= customer.people_count}}
    IN  IF wastes = {} THEN {} ELSE {Minimum(wastes)}

\* a run that nothing interleaved with has ended; it started with two parties
\* of 2, enqueued at different times, and one free table, for 2
C3Example(th) ==
    /\ RunDoneAlone(th)
    /\ \E a, b \in threads[th].run.users0 :
        /\ threads[th].run.users0 = {a, b}
        /\ a.people_count = 2 /\ b.people_count = 2
        /\ a.timestamp < b.timestamp
    /\ Cardinality(threads[th].run.free0) = 1
    /\ threads[th].run.free0 \subseteq TablesOfCapacity(2)

\* C3 (SpecAlloc): in the lists a pass read, no waiting party whose best table
\* wastes as many seats as the picked party's has a strictly earlier timestamp
\* than the picked party; two parties of 2 enqueued at t1 < t2 with one free
\* table for 2: the run seats the t1 party there and the t2 party is still
\* waiting.
C3_FcfsTieBreak ==
    \A th \in Threads :
        /\ threads[th].seating # <<>> =>
              \A i \in DOMAIN threads[th].waiting_customers :
                  LET other == threads[th].waiting_customers[i]
                  IN  BestWaste(other, threads[th].free_tables)
                          = BestWaste(threads[th].seating[1].customer, threads[th].free_tables)
                      => ~(other.timestamp < threads[th].seating[1].customer.timestamp)
        /\ C3Example(th) =>
              \E a, b \in threads[th].run.users0 :
                  /\ a.timestamp < b.timestamp
                  /\ \A t \in threads[th].run.free0 : tables[t] = OccupiedRow(a.id)
                  /\ users = {b}

C3_Witness ==
    \E th \in Threads :
        C3Example(th) /\ threads[th].run.commits = 1 /\ Cardinality(users) = 1

\* The most parties of P that can be seated at tables of T, one party per table
\* and each table large enough
RECURSIVE MaxMatching(_, _)
MaxMatching(P, T) ==
    IF P = {} \/ T = {} THEN 0
    ELSE LET p == CHOOSE x \in P : TRUE
             without == MaxMatching(P \ {p}, T)
             with == {1 + MaxMatching(P \ {p}, T \ {t}) :
                        t \in {x \in T : Capacity(x) >= p.people_count}}
         IN  CHOOSE m \in with \cup {without} : \A x \in with \cup {without} : m >= x

\* C4 (SpecFault): a run that nothing interleaved with and that has ended has
\* seated as many parties as the largest one-to-one assignment of the parties
\* waiting at its start to the tables free at its start, each table large
\* enough for its party.
C4_MaximalSeatings ==
    \A th \in Threads :
        RunDoneAlone(th) =>
            threads[th].run.commits
                = MaxMatching(threads[th].run.users0, threads[th].run.free0)

\* no waiting entry of us fits a free table of tbs
Quiescent(tbs, us) ==
    \A u \in us : \A t \in TableIds :
        tbs[t].status = "free" => Capacity(t) < u.people_count

\* C5 (SpecErr): when the requests are handled one at a time, a handler ends
\* with no waiting entry that fits a free table.
C5_Quiescence ==
    \A th \in Threads : (Done(th) /\ OneAtATime) => Quiescent(tables, users)

C6_Unique == \A u, v \in users : u.phone_number = v.phone_number => u = v

\* the write of a join: the INSERT, or the UPDATE of a row that is still in
\* the waiting list, committed without an error
WritesRow(th) ==
    /\ threads[th].pc \in {"L129", "L136"}
    /\ threads'[th].pc = "L398"
    /\ threads'[th].errors = threads[th].errors
    /\ threads[th].pc = "L129" => \E u \in users : u.id = threads[th].user_id

\* the write of a join leaves one row for that phone number: the id the
\* request is answered with, the name and size just sent
C6_Latest ==
    \A th \in Threads :
        WritesRow(th) =>
            {u \in users' : u.phone_number = threads[th].sender}
                = {[id |-> threads'[th].user_id, phone_number |-> threads[th].sender,
                    name |-> threads[th].name, people_count |-> threads[th].people_count,
                    timestamp |-> clock]}

\* C6 (SpecConc): the waiting list never holds two entries of one phone number,
\* and a join of a party that is still waiting leaves exactly one entry for it,
\* carrying the name and size of that join.
C6_WaitlistUniqueness == []C6_Unique /\ [][C6_Latest]_vars

\* two joins of one party were handled at the same time: the second has
\* updated the row the first inserted
C6_Witness ==
    \E th, other \in Threads :
        /\ threads[th].pc = "L398"
        /\ threads[other].sender = threads[th].sender
        /\ threads[other].user_id = threads[th].user_id
        /\ threads[other].name # threads[th].name
        /\ \E u \in users : /\ u.id = threads[th].user_id
                            /\ u.name = threads[th].name
                            /\ u.people_count = threads[th].people_count

\* the numbers a release is tried with: every table's, and one no table has
ReleaseNumbers == {TableNumber(t) : t \in TableIds} \cup {<<"T","7","7">>}

\* what releaseTable does to the tables a release meets (a thread is at line
\* 372): it keeps the set of tables, leaves a table that was free already free
\* with no occupant, changes nothing when it returns false, and called again
\* it returns the same and changes nothing
C7_Effect ==
    (\E th \in Threads : threads[th].pc = "L372") =>
    \A table_number \in ReleaseNumbers, db_error \in BOOLEAN :
        LET released == update_table_status_to_free(tables, table_number, db_error)
            again == update_table_status_to_free(released.tables, table_number, db_error)
        IN  /\ DOMAIN released.tables = DOMAIN tables
            /\ \A t \in RowsWithNumber(table_number) :
                  tables[t].status = "free" =>
                      /\ released.tables[t].status = "free"
                      /\ released.tables[t].occupied_by_user_id = NULL
            /\ ~released.found => released.tables = tables
            /\ again = released

\* the step of thread th is the call of update_table_status_to_free (line 372)
ReleaseStep(th) == threads[th].pc = "L372" /\ Acts(th)

\* C7 as stated (SpecErr): a release returns true (line 373 follows) exactly
\* when a table has the number; of a table that was free already it leaves
\* the status free, the occupant empty and the set of tables the same, twice
\* in a row as well.
C7_ReleaseIdempotent ==
    /\ []C7_Effect
    /\ [][\A th \in Threads :
             ReleaseStep(th) =>
                 /\ threads'[th].pc = "L373"
                        <=> RowsWithNumber(threads[th].table_number) # {}
                 /\ DOMAIN tables' = DOMAIN tables
                 /\ threads'[th].pc = "L376" => tables' = tables]_vars

\* C7 amended (SpecErr): a release returns true exactly when a table has the
\* number and the store raised no error in the update; of a table that was
\* free already it leaves the status free, the occupant empty and the set of
\* tables the same, twice in a row as well; returning false it changes no
\* table.
C7_ReleaseIdempotentUnlessError ==
    /\ []C7_Effect
    /\ [][\A th \in Threads :
             ReleaseStep(th) =>
                 /\ threads'[th].pc = "L373"
                        <=> /\ RowsWithNumber(threads[th].table_number) # {}
                            /\ "update_table_status_to_free" \notin threads'[th].db_errors
                 /\ DOMAIN tables' = DOMAIN tables
                 /\ \A t \in RowsWithNumber(threads[th].table_number) :
                       tables[t] = FreeRow => tables'[t] = FreeRow
                 /\ threads'[th].pc = "L376" => tables' = tables]_vars

\* the release of a known table, free already, that the store failed to carry
\* out: it is answered "not found" and every table is as it was
C7_Witness ==
    \E th \in Threads :
        /\ Done(th)
        /\ Kinds(threads[th].sent) = <<"table_not_found">>
        /\ RowsWithNumber(threads[th].table_number) # {}
        /\ threads[th].db_errors = {"update_table_status_to_free"}
        /\ \A t \in TableIds : tables[t] = FreeRow

\* C8 (SpecErr): a table has an occupant if and only if its status is occupied.
C8_TableInvariant ==
    \A t \in TableIds :
        tables[t].occupied_by_user_id # NULL <=> tables[t].status = "occupied"

\* a party was seated and its table then released, while a seat commit of
\* another request failed or not: the table is free, with no occupant
C8_Witness ==
    \E th \in Threads :
        /\ Done(th)
        /\ Kinds(threads[th].sent) = <<"table_freed">>
        /\ \E t \in RowsWithNumber(threads[th].table_number) :
              /\ threads[th].before.tables[t].status = "occupied"
              /\ tables[t] = FreeRow
        /\ seq >= 1

\* C9 (SpecErr): while no two requests of a sender have been handled at the
\* same time, the (role, state) of the sender's session is one of the four
\* combinations of the conversation whenever no request of the sender is
\* between its first and its last line, after a release or a save that
\* failed as well.
C9_SessionWellFormed ==
    \A sender \in DOMAIN user_states :
        (sender \notin hist.raced /\ ~InHandler(sender)) =>
            <<user_states[sender].role, user_states[sender].state>> \in ValidSessions

\* after a failed save one sender is still asked for name and size while the
\* other is a waiter about to release a table
C9_Witness ==
    \E th \in Threads :
        /\ Done(th)
        /\ Kinds(threads[th].sent) = <<"save_failed">>
        /\ hist.raced = {}
        /\ user_states[threads[th].sender]
               = [role |-> "customer", state |-> "awaiting_name_people"]
        /\ \E b \in DOMAIN user_states :
              user_states[b] = [role |-> "waiter", state |-> "awaiting_free_table_number"]

\* C10 (SpecSess): when two messages of one sender have been handled at the
\* same time, the session they leave is one that handling them one after the
\* other would leave: in particular its (role, state) is one of the four
\* combinations, which every serial order leaves (C9).
C10_SessionSerializable ==
    \A sender \in DOMAIN user_states :
        ~InHandler(sender) =>
            <<user_states[sender].role, user_states[sender].state>> \in ValidSessions

\* the session a request met, the default one when the sender had none
SessionMet(th) ==
    IF threads[th].before.session = NoSession THEN DefaultSession
    ELSE threads[th].before.session
\* the database is as the request of thread th met it
StoreAsMet(th) ==
    /\ tables = threads[th].before.tables
    /\ users = threads[th].before.users
    /\ seq = threads[th].before.seq
\* thread th has handled a text message, alone
DoneAlone(th) == Done(th) /\ threads[th].alone /\ threads[th].message_type = "text"

AliceName == <<"a","l","i","c","e">>
AliceText == <<"a","l","i","c","e",","," ","3">>
TableT5 == <<"T","5">>
\* no free table of tbs seats a party of 3
NoTableFor3(tbs) == \A t \in TableIds : Capacity(t) >= 3 => tbs[t].status = "occupied"

\* C11 (SpecScen): the scenario, each message handled alone.  "hi" in the
\* initial session is answered by the question for name and size; "alice, 3"
\* with no table for 3 free is answered "queued" and the party waits, no table
\* changes; "waiter" and the password open the release step; "T5" then frees
\* table T5 (capacity 4), the run seats the waiting party of 3 there wasting one
\* seat, the waiting list is empty, the waiter gets the confirmation and then
\* the party its seating notification, and the waiter's session is the
\* default one again.
C11_EndToEnd ==
    \A th \in Threads :
        LET t == threads[th]
        IN  DoneAlone(th) =>
            /\ (SessionMet(th) = DefaultSession /\ t.text = WordHi) =>
                  /\ t.sent = <<Msg(t.sender, "ask_name_people", <<>>)>>
                  /\ user_states[t.sender] = CustomerJoining
                  /\ StoreAsMet(th)
            /\ (/\ SessionMet(th) = CustomerJoining
                /\ t.text = AliceText
                /\ t.before.users = {}
                /\ NoTableFor3(t.before.tables)) =>
                  /\ t.sent = <<Msg(t.sender, "queued", <<AliceName, 3>>)>>
                  /\ tables = t.before.tables
                  /\ seq = t.before.seq + 1
                  /\ users = {[id |-> seq, phone_number |-> t.sender, name |-> AliceName,
                               people_count |-> 3, timestamp |-> clock]}
                  /\ user_states[t.sender] = DefaultSession
            /\ (SessionMet(th) = DefaultSession /\ t.text = WordWaiter) =>
                  /\ t.sent = <<Msg(t.sender, "ask_password", <<>>)>>
                  /\ user_states[t.sender]
                         = [role |-> "waiter", state |-> "awaiting_waiter_password"]
                  /\ StoreAsMet(th)
            /\ (/\ SessionMet(th) = [role |-> "waiter", state |-> "awaiting_waiter_password"]
                /\ t.text = WaiterPassword) =>
                  /\ t.sent = <<Msg(t.sender, "authenticated", <<>>)>>
                  /\ user_states[t.sender] = WaiterReady
                  /\ StoreAsMet(th)
            /\ (/\ SessionMet(th) = WaiterReady
                /\ t.text = <<"t","5">>
                /\ NoTableFor3(t.before.tables)
                /\ \E u \in t.before.users :
                      t.before.users = {u} /\ u.people_count = 3) =>
                  \E u \in t.before.users :
                      /\ RowsWithNumber(TableT5) = {5}
                      /\ Capacity(5) - u.people_count = 1
                      /\ tables = [t.before.tables EXCEPT ![5] = OccupiedRow(u.id)]
                      /\ users = {}
                      /\ t.sent = <<Msg(t.sender, "table_freed", <<TableT5>>),
                                    Msg(u.phone_number, "table_ready", <<u.name, TableT5>>)>>
                      /\ user_states[t.sender] = DefaultSession

\* the whole scenario, message after message: the waiter's release of T5 has
\* seated the party of 3 that had been waiting
C11_Witness ==
    \E th \in Threads :
        /\ DoneAlone(th)
        /\ OneAtATime
        /\ threads[th].text = <<"t","5">>
        /\ Kinds(threads[th].sent) = <<"table_freed", "table_ready">>
        /\ threads[th].sent[2].to # threads[th].sender
        /\ threads[th].sent[2].args = <<AliceName, TableT5>>
        /\ tables[5].status = "occupied"
        /\ threads[th].before.tables[5].status = "occupied"
        /\ users = {}

Smaller(a, b) == IF a <= b THEN a ELSE b

\* the passes of the run of thread th, the one in progress included:
\* run.passes counts the passes that are over (lines 251-252 end a committing
\* pass, line 320 or the re-run of line 318 the others), and between the
\* commit of line 242 and the notification of line 251 the pass that
\* committed is still in progress
PassesBegun(th) ==
    threads[th].run.passes + (IF threads[th].pc = "L251" THEN 1 ELSE 0)

\* what C12 says of the run of thread th, which met w waiting entries and f
\* free tables
C12_Bounds(th) ==
    LET run == threads[th].run
        w == Cardinality(run.users0)
        f == Cardinality(run.free0)
    IN  /\ run.commits <= Smaller(w, f)
        /\ PassesBegun(th) <= Smaller(w, f) + 1
        /\ run.commits <= PassesBegun(th)
        /\ threads[th].pc = "L320" =>
              /\ run.passes = run.commits + 1
              /\ (w = 0 \/ f = 0) => (run.commits = 0 /\ run.passes = 1)

\* C12 (SpecFault): an allocation run that nothing interleaves with, started
\* with w waiting entries and f free tables, commits at most min(w, f)
\* seatings in at most min(w, f) + 1 passes, one commit a pass at most, and
\* ends after the first pass that commits nothing; with w = 0 or f = 0 it is
\* one pass and no commit.
C12_AllocationTerminates ==
    \A th \in Threads :
        (threads[th].alone /\ threads[th].ret # "") => C12_Bounds(th)

\* C13 case: a waiter about to release, whose requests were handled one at a
\* time, has sent a number that no table has
UnknownNumber(th) ==
    /\ Done(th)
    /\ threads[th].message_type = "text"
    /\ threads[th].sender \notin hist.raced
    /\ threads[th].before.session = WaiterReady
    /\ RowsWithNumber(NormalizeTable(threads[th].text)) = {}

C13_Reply(th) ==
    /\ threads[th].sent = <<Msg(threads[th].sender, "table_not_found",
                                <<NormalizeTable(threads[th].text)>>)>>
    /\ threads[th].ret = ""
    /\ threads[th].alone => StoreAsMet(th)

\* the call of line 372 with a number no table has changes no table
C13_Step ==
    \A th \in Threads :
        (ReleaseStep(th) /\ RowsWithNumber(threads[th].table_number) = {}) =>
            tables' = tables /\ users' = users

\* C13 as stated (SpecErr): in (waiter, awaiting_free_table_number) a number
\* that no table has is answered by the lookup error, no table changes, no
\* allocation runs, and the session stays (waiter, awaiting_free_table_number).
C13_UnknownTableKeepsSession ==
    /\ [](\A th \in Threads :
            UnknownNumber(th) =>
                /\ C13_Reply(th)
                /\ user_states[threads[th].sender] = WaiterReady)
    /\ [][C13_Step]_vars

\* C13 amended (SpecErr): in (waiter, awaiting_free_table_number) a number
\* that no table has is answered by the lookup error, no table changes, no
\* allocation runs, and the session is reset to (customer, initial).
C13_UnknownTableResetsSession ==
    /\ [](\A th \in Threads :
            UnknownNumber(th) =>
                /\ C13_Reply(th)
                /\ user_states[threads[th].sender] = DefaultSession)
    /\ [][C13_Step]_vars

\* a waiter was told that T77 was not found, while a party sits at a table
C13_Witness ==
    \E th \in Threads :
        /\ UnknownNumber(th)
        /\ threads[th].sent = <<Msg(threads[th].sender, "table_not_found", <<<<"T","7","7">>>>)>>
        /\ user_states[threads[th].sender] = DefaultSession
        /\ \E t \in TableIds : tables[t].status = "occupied"

\* The texts of SpecSess that are no valid "Name, Count" and the error each is
\* answered with in awaiting_name_people
InvalidJoins ==
    (<<"h","i">> :> "bad_format")
    @@ (<<"w","a","i","t","e","r">> :> "bad_format")
    @@ (<<"w","a","i","t","e","r","1","2","3">> :> "bad_format")
    @@ (<<"t","9">> :> "bad_format")
    @@ (<<"a",",","b">> :> "bad_format")
    @@ (<<"a","l",","," ","0">> :> "not_positive")
    @@ (<<"a","l",",","7">> :> "too_many")

\* C14 (SpecSess): in (customer, awaiting_name_people) a text that is not
\* "Name, Count" (the keywords "hi" and "waiter" included), or whose count is
\* below 1 or above 6, is answered by the validation error of its kind;
\* nothing is saved, no allocation runs and the session stays as it is.
C14_InvalidJoinInput ==
    \A th \in Threads :
        LET t == threads[th]
        IN  (/\ Done(th)
             /\ t.message_type = "text"
             /\ t.sender \notin hist.raced
             /\ t.before.session = CustomerJoining
             /\ t.text \in DOMAIN InvalidJoins) =>
                /\ t.sent = <<Msg(t.sender, InvalidJoins[t.text], <<>>)>>
                /\ t.ret = ""
                /\ t.user_id = NULL
                /\ user_states[t.sender] = CustomerJoining
                /\ StoreAsMet(th)

\* a party of 7 was turned away and is still asked for name and size
C14_Witness ==
    \E th \in Threads :
        /\ Done(th)
        /\ threads[th].sender \notin hist.raced
        /\ threads[th].before.session = CustomerJoining
        /\ threads[th].text = <<"a","l",",","7">>
        /\ Kinds(threads[th].sent) = <<"too_many">>
        /\ user_states[threads[th].sender] = CustomerJoining
        /\ users = {}

WaiterAuthenticating == [role |-> "waiter", state |-> "awaiting_waiter_password"]

\* C15 (SpecSess): in (waiter, awaiting_waiter_password) every text but the
\* password, "hi" and "waiter" included, is answered by the authentication
\* error, the session is reset to (customer, initial), no table changes and
\* no allocation runs.
C15_FailedAuthentication ==
    \A th \in Threads :
        LET t == threads[th]
        IN  (/\ Done(th)
             /\ t.message_type = "text"
             /\ t.sender \notin hist.raced
             /\ t.before.session = WaiterAuthenticating
             /\ t.text # WaiterPassword) =>
                /\ t.sent = <<Msg(t.sender, "incorrect_password", <<>>)>>
                /\ t.ret = ""
                /\ t.user_id = NULL
                /\ user_states[t.sender] = DefaultSession
                /\ StoreAsMet(th)

\* "hi" sent for the password was answered by the authentication error
C15_Witness ==
    \E th \in Threads :
        /\ Done(th)
        /\ threads[th].sender \notin hist.raced
        /\ threads[th].before.session = WaiterAuthenticating
        /\ threads[th].text = WordHi
        /\ Kinds(threads[th].sent) = <<"incorrect_password">>
        /\ user_states[threads[th].sender] = DefaultSession

\* a step of a request that carries no text changes nothing but to create the
\* default session of a sender that had none (two requests of one sender
\* handled at the same time are the case of C10)
C16_Step ==
    \A th \in Threads :
        (/\ Acts(th)
         /\ threads[th].message_type = "image"
         /\ threads[th].sender \notin hist.raced) =>
            /\ tables' = tables /\ users' = users /\ seq' = seq
            /\ \/ user_states' = user_states
               \/ /\ threads[th].sender \notin DOMAIN user_states
                  /\ user_states' = (threads[th].sender :> DefaultSession) @@ user_states

\* C16 (SpecSess): a message that is not text is answered by the "text only"
\* notice and nothing else; the session keeps its role and state (the default
\* one is created for a sender that had none), no table and no waiting entry
\* changes and no allocation runs.
C16_NonTextIgnored ==
    /\ [](\A th \in Threads :
            LET t == threads[th]
            IN  (Done(th) /\ t.message_type = "image") =>
                   /\ t.sent = <<Msg(t.sender, "text_only", <<>>)>>
                   /\ t.ret = ""
                   /\ t.user_id = NULL
                   /\ t.sender \notin hist.raced => user_states[t.sender] = SessionMet(th)
                   /\ t.alone => StoreAsMet(th))
    /\ [][C16_Step]_vars

\* a waiter about to release sent a picture and is still about to release
C16_Witness ==
    \E th \in Threads :
        /\ Done(th)
        /\ threads[th].message_type = "image"
        /\ threads[th].before.session = WaiterReady
        /\ threads[th].sent = <<Msg(threads[th].sender, "text_only", <<>>)>>
        /\ user_states[threads[th].sender] = WaiterReady

\* C17 (Spec): a join whose save raised an error in the store is answered by
\* the failure message and by nothing else, runs no allocation and leaves the
\* session (customer, awaiting_name_people).
C17_EnqueueFailureReported ==
    \A th \in Threads :
        LET t == threads[th]
        IN  (/\ Done(th)
             /\ t.sender \notin hist.raced
             /\ "save_user_data_to_db" \in t.db_errors) =>
                /\ t.sent = <<Msg(t.sender, "save_failed", <<>>)>>
                /\ t.ret = ""
                /\ user_states[t.sender] = CustomerJoining

\* the step of thread th is the seating notification (line 251)
NotifyStep(th) == threads[th].pc = "L251" /\ Acts(th)
\* the step of thread th is a seat commit that raised no error
CommitStep(th) == threads[th].pc = "L242" /\ threads'[th].pc = "L251"

\* a seating notification that is not delivered changes nothing in the
\* database and the run goes on with its next pass; the seat commit it
\* follows is in the database when nothing interleaved
C18_Step ==
    \A th \in Threads :
        (NotifyStep(th) /\ threads'[th].undelivered > threads[th].undelivered) =>
            /\ tables' = tables /\ users' = users /\ seq' = seq
            /\ threads'[th].pc = "L266"
            /\ threads'[th].run.commits = threads[th].run.commits
            /\ threads[th].alone =>
                  /\ tables[threads[th].seating[1].table.id]
                         = OccupiedRow(threads[th].seating[1].customer.id)
                  /\ \A u \in users : u.id # threads[th].seating[1].customer.id

\* C18 (SpecSend): a failed send is ignored: the seat commit before it stays,
\* the run goes on and, when nothing interleaves, seats as many parties as
\* with every notification delivered.
C18_SendFailureKeepsState ==
    /\ [](\A th \in Threads :
            /\ threads[th].pc # "raised"
            /\ RunDoneAlone(th) =>
                  threads[th].run.commits
                      = MaxMatching(threads[th].run.users0, threads[th].run.free0))
    /\ [][C18_Step]_vars

\* two parties were seated by a run whose first notification was not delivered
C18_Witness ==
    \E th \in Threads :
        /\ RunDoneAlone(th)
        /\ threads[th].undelivered >= 1
        /\ threads[th].run.commits = 2
        /\ Len(threads[th].sent) = 2
        /\ users = {}

ReadyCount(sent) == Cardinality({i \in DOMAIN sent : sent[i].kind = "table_ready"})

\* a seat commit writes the entry's id into the table's row, and the entry
\* whose row it deletes has the phone number the notification will go to
C19_Commit ==
    \A th \in Threads :
        CommitStep(th) =>
            LET customer == threads[th].seating[1].customer
                table == threads[th].seating[1].table
            IN  /\ tables'[table.id] = OccupiedRow(customer.id)
                /\ \A u \in users : u.id = customer.id =>
                      /\ u.phone_number = customer.phone_number
                      /\ u \notin users'

\* the notification goes to the party of the commit and names its table
C19_Notify ==
    \A th \in Threads :
        NotifyStep(th) =>
            LET customer == threads[th].seating[1].customer
                table == threads[th].seating[1].table
                sent == threads'[th].sent
            IN  /\ Len(sent) = Len(threads[th].sent) + 1
                /\ sent[Len(sent)].kind = "table_ready"
                /\ sent[Len(sent)].to = customer.phone_number
                /\ sent[Len(sent)].args = <<customer.name, TableNumber(table.id)>>
                /\ threads[th].alone => tables[table.id] = OccupiedRow(customer.id)

\* C19 (Spec): every seat commit is followed by one seating notification, sent
\* to the phone number of the entry seated and naming the table it was given;
\* no notification is sent without a commit.
C19_SeatingNotification ==
    /\ [](\A th \in Threads :
            ReadyCount(threads[th].sent) + (IF threads[th].pc = "L251" THEN 1 ELSE 0)
                = threads[th].run.commits)
    /\ [][C19_Commit /\ C19_Notify]_vars

\* a party of 6 was seated on joining and told the number of its table, one
\* of the two tables for 6
C19_Witness ==
    \E th \in Threads :
        /\ Done(th)
        /\ threads[th].alone
        /\ threads[th].people_count = 6
        /\ Len(threads[th].sent) = 2
        /\ threads[th].sent[2].kind = "table_ready"
        /\ threads[th].sent[2].to = threads[th].sender
        /\ \E t \in TableIds :
              /\ tables[t] = OccupiedRow(threads[th].user_id)
              /\ threads[th].sent[2].args[2] = TableNumber(t)
              /\ Capacity(t) = 6

\* C20 (SpecConc): an entry that occupies a table is in the waiting list no
\* more, and the id of an entry is never given to another: the ids in the
\* waiting list are those given out and not seated.
C20_SeatRemovesEntry ==
    /\ \A t \in TableIds :
          tables[t].status = "occupied" =>
              /\ tables[t].occupied_by_user_id \in 1..seq
              /\ \A u \in users : u.id # tables[t].occupied_by_user_id
    /\ \A u \in users : u.id \in 1..seq
    /\ \A u, v \in users : u.id = v.id => u = v

\* a party sits at a table and waits again under a new id
C20_Witness ==
    \E t \in TableIds : \E u \in users :
        /\ tables[t].status = "occupied"
        /\ tables[t].occupied_by_user_id < u.id
        /\ tables[t].occupied_by_user_id \in DOMAIN hist.phones
        /\ hist.phones[tables[t].occupied_by_user_id] = u.phone_number

\* a row of "tables" is changed only by a seat commit, which makes the table
\* picked occupied, and by a release, which makes the tables of the number
\* sent free
C21_Step ==
    /\ DOMAIN tables' = DOMAIN tables
    /\ \A t \in TableIds :
          tables'[t] # tables[t] =>
              \E th \in Threads :
                  \/ /\ CommitStep(th)
                     /\ t = threads[th].seating[1].table.id
                     /\ tables'[t].status = "occupied"
                  \/ /\ ReleaseStep(th)
                     /\ t \in RowsWithNumber(threads[th].table_number)
                     /\ tables[t].status = "occupied"
                     /\ tables'[t] = FreeRow

\* C21 (SpecErr): the tables are the ten seeded ones in every state, whatever
\* is joined, released or typed; number and capacity are read from the seeded
\* configuration and are written by no step; a table's status is changed only
\* by a seat commit (to occupied) and by a release (to free); the release of
\* an unknown number adds no table.
C21_StaticTables ==
    /\ [](DOMAIN tables = DOMAIN initial_tables_config)
    /\ [][C21_Step]_vars

\* the release of the free table T10 was confirmed while a party sits at
\* another table
C21_Witness ==
    \E th \in Threads :
        /\ Done(th)
        /\ Kinds(threads[th].sent) = <<"table_freed">>
        /\ threads[th].table_number = <<"T","1","0">>
        /\ tables[10] = FreeRow
        /\ threads[th].before.tables[10] = FreeRow
        /\ \E t \in TableIds : tables[t].status = "occupied"

\* C22 (Spec): every entry of the waiting list, and every size a handler is
\* about to save, is between 1 and 6, the largest seeded capacity, so some
\* table is large enough for every waiting party.
C22_PartySizeBound ==
    /\ MaxPartySize = LargestCapacity
    /\ \A u \in users :
          /\ 1 <= u.people_count /\ u.people_count <= LargestCapacity
          /\ \E t \in TableIds : Capacity(t) >= u.people_count
    /\ \A th \in Threads :
          threads[th].pc \in {"L123", "L129", "L136", "L398"} =>
              1 <= threads[th].people_count /\ threads[th].people_count <= LargestCapacity

\* a party of 6 has just been saved
C22_Witness ==
    \E th \in Threads :
        /\ threads[th].pc = "L398"
        /\ \E u \in users :
              /\ u.id = threads[th].user_id
              /\ u.phone_number = threads[th].sender
              /\ u.people_count = MaxPartySize

\* a seat commit never puts a party at a table smaller than the party is
\* when the commit is made
C23_Commit ==
    \A th \in Threads :
        CommitStep(th) =>
            LET customer == threads[th].seating[1].customer
                table == threads[th].seating[1].table
            IN  /\ \A u \in users : u.id = customer.id => u.people_count <= Capacity(table.id)
                /\ threads[th].alone =>
                      /\ tables[table.id].status = "free"
                      /\ customer \in users

\* C23 (SpecConc): no party is seated at a table of a capacity smaller than
\* its size; when nothing interleaves, a seat commit is for a table that is
\* free and an entry that is waiting at the commit; an entry that fits no
\* free table is never picked, and no error is raised.
C23_CapacitySafety ==
    /\ [](\A th \in Threads :
            /\ threads[th].pc # "raised"
            /\ threads[th].seating # <<>> =>
                  /\ threads[th].seating[1].table.capacity
                         >= threads[th].seating[1].customer.people_count
                  /\ Capacity(threads[th].seating[1].table.id)
                         = threads[th].seating[1].table.capacity)
    /\ [][C23_Commit]_vars

\* The candidates of a pass on waiting list us and free tables free, in the
\* order the pass takes them
Pool(us, free) ==
    sorted_allocations(potential_allocations(get_waiting_customers(us, FALSE),
                                             get_free_tables(StartTables(free), FALSE)))

\* in every pass in which x and y are candidates wasting the same number of
\* seats, x comes before y
RanksBefore(us, x, y) ==
    \A free \in StartFreeSets :
        LET pool == Pool(us, free)
        IN  \A i, j \in DOMAIN pool :
                (/\ pool[i].customer = x
                 /\ pool[j].customer = y
                 /\ pool[i].wasted_seats = pool[j].wasted_seats) => i < j

\* the step of thread th is the UPDATE of line 129 on the entry u, which is
\* still waiting
RepeatJoinStep(th, u) ==
    /\ threads[th].pc = "L129"
    /\ threads'[th].pc = "L398"
    /\ u.id = threads[th].user_id

Rejoined(th, u) ==
    [u EXCEPT !.name = threads[th].name, !.people_count = threads[th].people_count,
              !.timestamp = clock]

\* the entry is updated in place: same id, no new row, the timestamp the
\* current second, which no waiting entry is later than
C24_InPlace(th, u) ==
    /\ seq' = seq
    /\ users' = (users \ {u}) \cup {Rejoined(th, u)}
    /\ tables' = tables
    /\ \A v \in users' : v.timestamp <= Rejoined(th, u).timestamp

\* the entries that joined after u did
JoinedBetween(u) == {v \in users' : v.id > u.id}

\* C24 as stated (SpecJoin): a repeat join of a party that is still waiting
\* updates its entry in place and sets its timestamp to the current second,
\* so no waiting entry has a later timestamp and in equal-waste ties it ranks
\* behind every entry that joined between its first and its repeat join.
C24_RepeatJoinRanksBehind ==
    [][\A th \in Threads : \A u \in users :
          RepeatJoinStep(th, u) =>
              /\ C24_InPlace(th, u)
              /\ \A v \in JoinedBetween(u) : RanksBefore(users', v, Rejoined(th, u))]_vars

\* C24 amended (SpecJoin): a repeat join of a party that is still waiting
\* updates its entry in place and sets its timestamp to the current second,
\* so no waiting entry has a later timestamp; in equal-waste ties it ranks
\* behind the entries that joined in between and have a strictly earlier
\* timestamp, and ahead of those that joined in the second of the repeat
\* join.
C24_RepeatJoinRanksBehindEarlier ==
    [][\A th \in Threads : \A u \in users :
          RepeatJoinStep(th, u) =>
              /\ C24_InPlace(th, u)
              /\ \A v \in JoinedBetween(u) :
                    /\ v.timestamp < clock => RanksBefore(users', v, Rejoined(th, u))
                    /\ v.timestamp = clock => RanksBefore(users', Rejoined(th, u), v)]_vars

\* a party joined again a second after another party of its size had joined
\* behind it: both wait, the later row has the earlier timestamp
C24_Witness ==
    \E th \in Threads :
        /\ threads[th].pc = "L398"
        /\ \E u, v \in users :
              /\ u.id = threads[th].user_id
              /\ u.phone_number = threads[th].sender
              /\ u.id < v.id
              /\ u.people_count = v.people_count
              /\ u.timestamp = clock
              /\ v.timestamp < clock

\* C25 (SpecSess): while the requests of a sender are handled one at a time, a
\* request releases a table (line 372 is reached and confirmed) only in the
\* session (waiter, awaiting_free_table_number); a request leaves the session
\* in that state only if it was the password sent in (waiter,
\* awaiting_waiter_password), or a message without text met in that state;
\* (waiter, awaiting_waiter_password) is left only by "waiter" sent in the
\* initial state, or by a message without text met in that state; every
\* other text sent for the password resets the session and releases nothing.
C25_ReleaseRequiresAuthentication ==
    \A th \in Threads :
        LET t == threads[th]
        IN  (Done(th) /\ t.sender \notin hist.raced) =>
            /\ (t.table_number # <<>> \/ "table_freed" \in Range(Kinds(t.sent))) =>
                  t.message_type = "text" /\ t.before.session = WaiterReady
            /\ user_states[t.sender] = WaiterReady =>
                  \/ /\ t.message_type = "text"
                     /\ t.before.session = WaiterAuthenticating
                     /\ t.text = WaiterPassword
                  \/ t.message_type = "image" /\ t.before.session = WaiterReady
            /\ user_states[t.sender] = WaiterAuthenticating =>
                  \/ /\ t.message_type = "text"
                     /\ SessionMet(th) = DefaultSession
                     /\ t.text = WordWaiter
                  \/ t.message_type = "image" /\ t.before.session = WaiterAuthenticating
            /\ (/\ t.message_type = "text"
                /\ t.before.session = WaiterAuthenticating
                /\ t.text # WaiterPassword) =>
                  /\ user_states[t.sender] = DefaultSession
                  /\ t.table_number = <<>>
                  /\ tables = t.before.tables

\* "waiter", the password and a table number, one after the other: the
\* release was confirmed
C25_Witness ==
    \E th \in Threads :
        /\ Done(th)
        /\ threads[th].sender \notin hist.raced
        /\ threads[th].before.session = WaiterReady
        /\ threads[th].text = <<"t","9">>
        /\ Kinds(threads[th].sent) = <<"table_freed">>
        /\ user_states[threads[th].sender] = DefaultSession

\* the entries of party, by hist.phones
EntriesOf(party) == {id \in DOMAIN hist.phones : hist.phones[id] = party}
\* the last entry of party occupies a table of tbs
LatestSeated(tbs, party) ==
    \E t \in TableIds :
        /\ tbs[t].status = "occupied"
        /\ tbs[t].occupied_by_user_id \in EntriesOf(party)
        /\ \A id \in EntriesOf(party) : id <= tbs[t].occupied_by_user_id

\* the step of thread th is the write of save_user_data_to_db
SaveStep(th) == threads[th].pc \in {"L129", "L136"} /\ Acts(th)

\* C26 (SpecJoin): a join of a party whose last entry occupied a table when the
\* join arrived, handled apart from other requests of the party, inserts a
\* row with a new id for it and changes no table and no other row; so a state
\* is reached in which two tables are occupied by entries of one party.
C26_SeatedPartyJoinsAgain ==
    [][\A th \in Threads :
          (/\ SaveStep(th)
           /\ threads[th].sender \notin hist.raced
           /\ LatestSeated(threads[th].before.tables, threads[th].sender)) =>
              /\ seq' = seq + 1
              /\ threads'[th].user_id = seq'
              /\ \A t \in TableIds : tables[t].occupied_by_user_id # seq'
              /\ \A u \in users : u.id # seq'
              /\ users' = users \cup {[id |-> seq', phone_number |-> threads[th].sender,
                                       name |-> threads[th].name,
                                       people_count |-> threads[th].people_count,
                                       timestamp |-> clock]}
              /\ tables' = tables
              /\ threads'[th].pc = "L398"]_vars

\* two tables are occupied by entries of one party
C26_Witness ==
    \E t1, t2 \in TableIds :
        /\ t1 # t2
        /\ hist.raced = {}
        /\ tables[t1].status = "occupied" /\ tables[t2].status = "occupied"
        /\ tables[t1].occupied_by_user_id # tables[t2].occupied_by_user_id
        /\ tables[t1].occupied_by_user_id \in DOMAIN hist.phones
        /\ tables[t2].occupied_by_user_id \in DOMAIN hist.phones
        /\ hist.phones[tables[t1].occupied_by_user_id]
               = hist.phones[tables[t2].occupied_by_user_id]
        /\ hist.phones[tables[t1].occupied_by_user_id] \in Senders

Confirmations == {"queued", "table_freed"}

\* C27 (SpecScen): of the messages a request sends, the confirmation of a
\* join ("queued") or of a release ("table freed") is the first, and a seating
\* notification is sent only after one; handled alone, a request that has
\* sent a notification of its run has sent its confirmation before.
C27_ConfirmationFirst ==
    \A th \in Threads :
        LET sent == threads[th].sent
        IN  \A i \in DOMAIN sent :
                /\ sent[i].kind \in Confirmations =>
                      /\ i = 1
                      /\ sent[i].to = threads[th].sender
                /\ sent[i].kind = "table_ready" =>
                      /\ i > 1
                      /\ sent[1].kind \in Confirmations
                      /\ threads[th].ret # ""

\* a party that joined with a table free was told "queued", then its table
C27_Witness ==
    \E th \in Threads :
        /\ Done(th)
        /\ threads[th].alone
        /\ Kinds(threads[th].sent) = <<"queued", "table_ready">>
        /\ threads[th].sent[2].to = threads[th].sender
        /\ \E t \in TableIds : tables[t] = OccupiedRow(threads[th].user_id)
====
